---- MODULE Spec2Model ----
(***************************************************************************)
(* Model of the Howizard audio engine (AudioEngine, audio_engine.h/.cpp):  *)
(* the shared parameter record and its setters, the engine mutex, the      *)
(* start()/stop() lifecycle and the worker task's processLoop().           *)
(*                                                                         *)
(* Number representation.  The C++ floats are modelled as scaled integers: *)
(*   - audio samples ("float in [-1,1]") in units of 1/FS, so 1.0f = FS;   *)
(*   - linear gains, blend, step size, attenuation in hundredths           *)
(*     (outputGain 1.5f = 150);                                            *)
(*   - dB gains in hundredths of a dB (0.1 dB = 10);                       *)
(*   - frequencies in Hz, micGain in codec PGA units.                      *)
(***************************************************************************)
EXTENDS Integers, Sequences, FiniteSets, TLC

(***************************************************************************)
(* Bounds of the model (not program constants).                            *)
(***************************************************************************)
\* number of API calls the caller thread issues in one behaviour
MaxCalls == 3
\* number of worker tasks start() may create in one behaviour
MaxWorkers == 2
\* frames per audio block in the model (BLOCK_SIZE is 480 in the program)
BlockLen == 1
\* blocks the codec delivers in one behaviour of AudioSpec
MaxBlocks == 5
\* number of API calls in one behaviour of AudioSpec
MaxAudioCalls == 2
\* number of API calls in one behaviour of VeSpec
MaxVeCalls == 3
\* number of API calls in one behaviour of MeterSpec
MaxMeterCalls == 3
\* samples mixed in one behaviour of MixSpec, and a small sample value
MaxMixCalls == 1
MixSmall == 300
\* number of API calls in one behaviour of RestartSpec
MaxRestartCalls == 4
\* number of API calls in one behaviour of SetterSpec
MaxSetterCalls == 2
\* blocks between two headphone-detect polls in the model (the program's
\* HP_DETECT_INTERVAL is 48)
HP_DETECT_INTERVAL == 2

(***************************************************************************)
(* Program constants.                                                      *)
(***************************************************************************)
\* full scale of a float sample: 1.0f, as the int16 scale 32768
FS == 32768
\* largest int16 value used in the float -> int16 conversion
I16MAX == 32767
\* PEAK_DECAY = 0.97f, in hundredths
PEAK_DECAY == 97
\* BLOCK_SIZE
BLOCK_SIZE == 480
\* the 0.1 dB bypass threshold of calcPeakEqCoeffs, in hundredths of a dB
EQ_BYPASS_DB == 10
\* 1.0f / 32768.0f: the scale of the int16 -> float conversion
I16SCALE == 32768
\* NS_FRAME_16K and AEC_FRAME_16K
NS_FRAME_16K == 160
AEC_FRAME_16K == 512
\* resolution of the RMS arithmetic (squares are taken of x / METER_RES so
\* that they stay within TLC's 32-bit integers) and the largest root
METER_RES == 64
SQRT_MAX == 4096
\* a non-silent int16 input sample (half scale)
LOUD == 16384

Abs(x) == IF x < 0 THEN -x ELSE x
Max(a, b) == IF a > b THEN a ELSE b
Min(a, b) == IF a < b THEN a ELSE b

\* C++ conversion of a quotient to an integer: truncation toward zero (b > 0)
TruncDiv(a, b) == IF a >= 0 THEN a \div b ELSE -((-a) \div b)
\* a % b of two ints, b > 0: the remainder has the sign of a
CRem(a, b) == a - b * TruncDiv(a, b)

\* std::clamp(v, lo, hi)
Clamp(v, lo, hi) == IF v < lo THEN lo ELSE IF hi < v THEN hi ELSE v

\* variant: AudioEngineParams whose outputMute member initialiser is false
DefaultParams_unmuted ==
  [ micGain |-> 180,
    hpfEnabled |-> TRUE, hpfFrequency |-> 80,
    lpfEnabled |-> FALSE, lpfFrequency |-> 18000,
    eqLowGain |-> 0, eqMidGain |-> 0, eqHighGain |-> 0,
    nsEnabled |-> FALSE, nsMode |-> 2,
    agcEnabled |-> FALSE, agcMode |-> 2, agcCompressionGainDb |-> 9,
    agcLimiterEnabled |-> TRUE, agcTargetLevelDbfs |-> -3,
    veEnabled |-> FALSE, veBlend |-> 50, veStepSize |-> 8,
    veFilterLength |-> 64, veMaxAttenuation |-> 60,
    veRefGain |-> 50, veRefHpf |-> 150, veRefLpf |-> 3000,
    veMode |-> 0, veAecMode |-> 1, veAecFilterLen |-> 4,
    veVadEnabled |-> TRUE, veVadMode |-> 3,
    veVadGateEnabled |-> TRUE, veVadGateAtten |-> 15,
    outputGain |-> 150, outputVolume |-> 100,
    outputMute |-> FALSE, boostEnabled |-> FALSE ]

(***************************************************************************)
(* AudioEngineParams with its default member initialisers.                 *)
(***************************************************************************)
DefaultParams ==
  [ micGain |-> 180,
    hpfEnabled |-> TRUE, hpfFrequency |-> 80,
    lpfEnabled |-> FALSE, lpfFrequency |-> 18000,
    eqLowGain |-> 0, eqMidGain |-> 0, eqHighGain |-> 0,
    nsEnabled |-> FALSE, nsMode |-> 2,
    agcEnabled |-> FALSE, agcMode |-> 2, agcCompressionGainDb |-> 9,
    agcLimiterEnabled |-> TRUE, agcTargetLevelDbfs |-> -3,
    veEnabled |-> FALSE, veBlend |-> 50, veStepSize |-> 8,
    veFilterLength |-> 64, veMaxAttenuation |-> 60,
    veRefGain |-> 50, veRefHpf |-> 150, veRefLpf |-> 3000,
    veMode |-> 0, veAecMode |-> 1, veAecFilterLen |-> 4,
    veVadEnabled |-> TRUE, veVadMode |-> 3,
    veVadGateEnabled |-> TRUE, veVadGateAtten |-> 15,
    outputGain |-> 150, outputVolume |-> 100,
    outputMute |-> TRUE, boostEnabled |-> FALSE ]

\* AudioLevels with its default member initialisers
DefaultLevels ==
  [ rmsLeft |-> 0, rmsRight |-> 0, peakLeft |-> 0, peakRight |-> 0,
    rmsHP |-> 0, peakHP |-> 0, vadSpeechDetected |-> FALSE ]

(***************************************************************************)
(* The per-field setters: the assignment each performs on _params.         *)
(* (The lock and the _paramsChanged = true are in the action SetBody.)     *)
(***************************************************************************)
setMicGain(p, gain) == [p EXCEPT !.micGain = Clamp(gain, 0, 240)]
setHpf(p, enabled, freq) ==
  [p EXCEPT !.hpfEnabled = enabled, !.hpfFrequency = Clamp(freq, 20, 2000)]
setLpf(p, enabled, freq) ==
  [p EXCEPT !.lpfEnabled = enabled, !.lpfFrequency = Clamp(freq, 500, 20000)]
setEqLow(p, gainDb) == [p EXCEPT !.eqLowGain = Clamp(gainDb, -1200, 1200)]
setEqMid(p, gainDb) == [p EXCEPT !.eqMidGain = Clamp(gainDb, -1200, 1200)]
setEqHigh(p, gainDb) == [p EXCEPT !.eqHighGain = Clamp(gainDb, -1200, 1200)]
setNsEnabled(p, enabled) == [p EXCEPT !.nsEnabled = enabled]
setNsMode(p, mode) == [p EXCEPT !.nsMode = Clamp(mode, 0, 2)]
setAgcEnabled(p, enabled) == [p EXCEPT !.agcEnabled = enabled]
setAgcMode(p, mode) == [p EXCEPT !.agcMode = Clamp(mode, 0, 3)]
setAgcCompressionGain(p, gainDb) ==
  [p EXCEPT !.agcCompressionGainDb = Clamp(gainDb, 0, 90)]
setAgcLimiterEnabled(p, enabled) == [p EXCEPT !.agcLimiterEnabled = enabled]
setAgcTargetLevel(p, levelDbfs) ==
  [p EXCEPT !.agcTargetLevelDbfs = Clamp(levelDbfs, -31, 0)]
setVeEnabled(p, enabled) == [p EXCEPT !.veEnabled = enabled]
setVeBlend(p, blend) == [p EXCEPT !.veBlend = Clamp(blend, 0, 100)]
setVeStepSize(p, stepSize) == [p EXCEPT !.veStepSize = Clamp(stepSize, 1, 100)]
setVeFilterLength(p, taps) == [p EXCEPT !.veFilterLength = Clamp(taps, 16, 512)]
setVeMaxAttenuation(p, atten) ==
  [p EXCEPT !.veMaxAttenuation = Clamp(atten, 0, 100)]
setVeRefGain(p, gain) == [p EXCEPT !.veRefGain = Clamp(gain, 10, 500)]
setVeRefHpf(p, freq) == [p EXCEPT !.veRefHpf = Clamp(freq, 20, 500)]
setVeRefLpf(p, freq) == [p EXCEPT !.veRefLpf = Clamp(freq, 1000, 8000)]
setVeMode(p, mode) == [p EXCEPT !.veMode = Clamp(mode, 0, 1)]
setVeAecMode(p, mode) == [p EXCEPT !.veAecMode = mode]
setVeAecFilterLen(p, len) == [p EXCEPT !.veAecFilterLen = Clamp(len, 1, 6)]
setVeVadEnabled(p, enabled) == [p EXCEPT !.veVadEnabled = enabled]
setVeVadMode(p, mode) == [p EXCEPT !.veVadMode = Clamp(mode, 0, 4)]
setOutputGain(p, gain) == [p EXCEPT !.outputGain = Clamp(gain, 0, 400)]
setOutputVolume(p, vol) == [p EXCEPT !.outputVolume = Clamp(vol, 0, 100)]
setMute(p, mute) == [p EXCEPT !.outputMute = mute]
\* setParams: _params = p
setParams(p, q) == q

\* An API call: the operation, its bool argument b, its numeric argument x
\* and (for setParams) its record argument p.
Call(op, b, x, p) == [op |-> op, b |-> b, x |-> x, p |-> p]
NoCall == Call("none", FALSE, 0, DefaultParams)

\* The record a setter call leaves in _params.
ApplyCall(p, c) ==
  CASE c.op = "setMicGain" -> setMicGain(p, c.x)
    [] c.op = "setHpf" -> setHpf(p, c.b, c.x)
    [] c.op = "setLpf" -> setLpf(p, c.b, c.x)
    [] c.op = "setEqLow" -> setEqLow(p, c.x)
    [] c.op = "setEqMid" -> setEqMid(p, c.x)
    [] c.op = "setEqHigh" -> setEqHigh(p, c.x)
    [] c.op = "setNsEnabled" -> setNsEnabled(p, c.b)
    [] c.op = "setNsMode" -> setNsMode(p, c.x)
    [] c.op = "setAgcEnabled" -> setAgcEnabled(p, c.b)
    [] c.op = "setAgcMode" -> setAgcMode(p, c.x)
    [] c.op = "setAgcCompressionGain" -> setAgcCompressionGain(p, c.x)
    [] c.op = "setAgcLimiterEnabled" -> setAgcLimiterEnabled(p, c.b)
    [] c.op = "setAgcTargetLevel" -> setAgcTargetLevel(p, c.x)
    [] c.op = "setVeEnabled" -> setVeEnabled(p, c.b)
    [] c.op = "setVeBlend" -> setVeBlend(p, c.x)
    [] c.op = "setVeStepSize" -> setVeStepSize(p, c.x)
    [] c.op = "setVeFilterLength" -> setVeFilterLength(p, c.x)
    [] c.op = "setVeMaxAttenuation" -> setVeMaxAttenuation(p, c.x)
    [] c.op = "setVeRefGain" -> setVeRefGain(p, c.x)
    [] c.op = "setVeRefHpf" -> setVeRefHpf(p, c.x)
    [] c.op = "setVeRefLpf" -> setVeRefLpf(p, c.x)
    [] c.op = "setVeMode" -> setVeMode(p, c.x)
    [] c.op = "setVeAecMode" -> setVeAecMode(p, c.x)
    [] c.op = "setVeAecFilterLen" -> setVeAecFilterLen(p, c.x)
    [] c.op = "setVeVadEnabled" -> setVeVadEnabled(p, c.b)
    [] c.op = "setVeVadMode" -> setVeVadMode(p, c.x)
    [] c.op = "setOutputGain" -> setOutputGain(p, c.x)
    [] c.op = "setOutputVolume" -> setOutputVolume(p, c.x)
    [] c.op = "setMute" -> setMute(p, c.b)
    [] c.op = "setParams" -> setParams(p, c.p)
    [] OTHER -> p


(***************************************************************************)
(* Biquad coefficients.  A coefficient set (b0, b1, b2, a1, a2) is         *)
(* represented by the arguments that determine it: the cookbook formula    *)
(* used, the corner frequency and the gain.  BYPASS is b0 = 1 and          *)
(* b1 = b2 = a1 = a2 = 0, the default member initialisers of Biquad.       *)
(***************************************************************************)
BYPASS == [kind |-> "bypass", f |-> 0, g |-> 0]
calcHpfCoeffs(freq) == [kind |-> "hpf", f |-> freq, g |-> 0]
calcLpfCoeffs(freq) == [kind |-> "lpf", f |-> freq, g |-> 0]
calcPeakEqCoeffs(freq, gainDb) ==
  IF Abs(gainDb) < EQ_BYPASS_DB THEN BYPASS
  ELSE [kind |-> "peak", f |-> freq, g |-> gainDb]

\* The biquads of the engine, in the order recalcAllCoeffs assigns them.
BqOrder == << "hpfL", "hpfR", "lpfL", "lpfR", "eqLowL", "eqLowR",
              "eqMidL", "eqMidR", "eqHighL", "eqHighR",
              "veRefHpfBq", "veRefLpfBq" >>
BqNames == { BqOrder[i] : i \in 1..Len(BqOrder) }

\* The coefficients recalcAllCoeffs computes for biquad b from record p.
CoeffFor(b, p) ==
  CASE b \in {"hpfL", "hpfR"} -> calcHpfCoeffs(p.hpfFrequency)
    [] b \in {"lpfL", "lpfR"} -> calcLpfCoeffs(p.lpfFrequency)
    [] b \in {"eqLowL", "eqLowR"} -> calcPeakEqCoeffs(250, p.eqLowGain)
    [] b \in {"eqMidL", "eqMidR"} -> calcPeakEqCoeffs(1000, p.eqMidGain)
    [] b \in {"eqHighL", "eqHighR"} -> calcPeakEqCoeffs(4000, p.eqHighGain)
    [] b = "veRefHpfBq" -> calcHpfCoeffs(p.veRefHpf)
    [] b = "veRefLpfBq" -> calcLpfCoeffs(p.veRefLpf)

\* The helper handles and NLMS filter pointers of the engine.
HandleNames == {"nsL", "nsR", "agcL", "agcR", "nlmsL", "nlmsR",
                "aecL", "aecR", "vad"}

Workers == 1..MaxWorkers
\* The threads, as holders of the mutex.
Free == << "free" >>
ByCaller == << "caller" >>
ByWorker(w) == << "worker", w >>
Zeros == [i \in 1..BlockLen |-> 0]

(***************************************************************************)
(* State.                                                                  *)
(***************************************************************************)
VARIABLES
  params,         \* _params
  levels,         \* _levels
  paramsChanged,  \* _paramsChanged
  running,        \* _running
  taskHandle,     \* _taskHandle: 0 = nullptr, else the worker created last
  mutex,          \* _mutex: Free, or the thread holding it
  coef,           \* b0..a2 of every engine biquad
  zst,            \* z1, z2 of every engine biquad: "zero" or "hist"
  h,              \* the handle pointers: "null" or "live"
  codec,          \* codec driver state set through the bsp handle
  codecOut,       \* the block last written with i2s_write
  cpc,            \* where the caller thread is
  pending,        \* the setter or getter call the caller thread is in
  ret,            \* what the last getParams()/getLevels()/isRunning() returned
  calls,          \* number of calls issued
  nworkers,       \* number of worker tasks created by xTaskCreatePinnedToCore
  wk,             \* per worker: position and the locals of processLoop
  blocks,         \* number of blocks delivered by a codec that counts them
  hist,           \* history: what the calls have asked for so far, and
                  \* which block each half of the levels record is from
  nlms,           \* one NlmsFilter object: _weights, _refBuf, _len, _pos
  rs,             \* one Resampler object: _history, _upHistory, and the
                  \* signals it has been given and has returned
  bq,             \* one Biquad object with numeric coefficients and state
  nlf,            \* the engine's two NlmsFilter objects: their length and
                  \* whether process() has run on them since init()
  mix             \* one sample of the NLMS removal: input, estimate,
                  \* blend, maxAtt and the sample stored back

vars == << params, levels, paramsChanged, running, taskHandle, mutex, coef,
           zst, h, codec, codecOut, cpc, pending, ret, calls, nworkers, wk,
           blocks, hist, nlms, rs, bq, nlf, mix >>


\* _nlmsL and _nlmsR are created, used and destroyed together.  NoNlf: both
\* null.  NlfInit: both as init(filterLength) leaves them (weights and
\* reference buffer zero, _pos = 0).  NlfProcess: after process() has run
\* on them (reference buffer written, _pos advanced, weights adapted).
NoNlf == [len |-> 0, st |-> "none"]
NlfInit(filterLength) == [len |-> filterLength, st |-> "fresh"]
NlfProcess(f) == IF f = NoNlf THEN f ELSE [f EXCEPT !.st = "used"]


\* no sample mixed yet
NoMix == [x |-> 0, est |-> 0, blend |-> 0, maxAtt |-> 0, out |-> 0,
          calls |-> 0]

\* The locals of processLoop as they are before the task runs.
(***************************************************************************)
(* struct Biquad with numbers.  Coefficients are in units of 1/BQ_SCALE,   *)
(* samples and the state z1, z2 are integers.  The peaking-EQ coefficients *)
(* are those calcPeakEqCoeffs computes for the mid band (1000 Hz, Q = 1.4, *)
(* 48 kHz) at the gains of BqGains, rounded to 1/BQ_SCALE.                 *)
(***************************************************************************)
BQ_SCALE == 1000
EQ_MID_HZ == 1000
BqGains == {0, 600, -600}

\* b0, b1, b2, a1, a2 for the coefficients c that calcPeakEqCoeffs assigns
CoeffValues(c) ==
  IF c = BYPASS
  THEN [b0 |-> BQ_SCALE, b1 |-> 0, b2 |-> 0, a1 |-> 0, a2 |-> 0]
  ELSE IF c.g > 0
  THEN [b0 |-> 1032, b1 |-> -1920, b2 |-> 904, a1 |-> -1920, a2 |-> 936]
  ELSE [b0 |-> 969, b1 |-> -1860, b2 |-> 907, a1 |-> -1860, a2 |-> 876]

\* a Biquad as constructed: identity coefficients, z1 = z2 = 0
FreshBiquad ==
  [ c |-> CoeffValues(BYPASS), z1 |-> 0, z2 |-> 0,
    op |-> "none", in |-> 0, out |-> 0, calls |-> 0 ]

\* Biquad::process(in)
BiquadProcess(b, x) ==
  LET out == TruncDiv(b.c.b0 * x, BQ_SCALE) + b.z1
  IN  [b EXCEPT !.z1 = TruncDiv(b.c.b1 * x - b.c.a1 * out, BQ_SCALE) + b.z2,
                !.z2 = TruncDiv(b.c.b2 * x - b.c.a2 * out, BQ_SCALE),
                !.op = "process", !.in = x, !.out = out]

\* Biquad::reset()
BiquadReset(b) == [b EXCEPT !.z1 = 0, !.z2 = 0, !.op = "reset"]

(***************************************************************************)
(* class Resampler.  Samples are integers; the coefficient table is the    *)
(* source's table times RES_SCALE, and a convolution sum is divided by     *)
(* RES_SCALE.  Sequences are 1-based: in[k + 1] is the source's in[k].     *)
(***************************************************************************)
RES_SCALE == 10000
FILTER_TAPS == 21
HALF_TAPS == FILTER_TAPS \div 2
UP_TAPS == 7
UP_HISTORY == 3
lpf_coeffs ==
  << -29, -56, 0, 175, 303, 0, -657, -1186, 0, 3125, 5002, 3125,
     0, -1186, -657, 0, 303, 175, 0, -56, -29 >>

\* the sample at srcIdx: from the history before the block, from the block,
\* or 0 after the end of the block
ResSample(hs, histLen, in, inFrames, srcIdx) ==
  IF srcIdx < 0
  THEN IF histLen + srcIdx >= 0 THEN hs[histLen + srcIdx + 1] ELSE 0
  ELSE IF srcIdx < inFrames THEN in[srcIdx + 1] ELSE 0

\* the tap loop of downsample3 for t = 0 .. n-1 at input index inIdx
RECURSIVE DownSum(_, _, _, _, _)
DownSum(hs, in, inFrames, inIdx, n) ==
  IF n = 0 THEN 0
  ELSE ResSample(hs, HALF_TAPS, in, inFrames, inIdx - HALF_TAPS + (n - 1))
         * lpf_coeffs[n]
       + DownSum(hs, in, inFrames, inIdx, n - 1)

\* the tap loop of upsample3 for t = 0 .. n-1 at input index i and phase
RECURSIVE UpSum(_, _, _, _, _, _)
UpSum(hs, in, inFrames, i, phase, n) ==
  IF n = 0 THEN 0
  ELSE (IF (n - 1) * 3 + phase < FILTER_TAPS
        THEN ResSample(hs, UP_HISTORY, in, inFrames, i - 3 + (n - 1))
               * lpf_coeffs[(n - 1) * 3 + phase + 1]
        ELSE 0)
       + UpSum(hs, in, inFrames, i, phase, n - 1)

\* the last k samples of a block
LastOf(in, inFrames, k) == [j \in 1..k |-> in[inFrames - k + j]]

\* downsample3: _history after the call
DownHistory(hs, in, inFrames) ==
  IF inFrames >= HALF_TAPS THEN LastOf(in, inFrames, HALF_TAPS) ELSE hs

\* downsample3(in, out, outFrames) with _history = hs
downsample3(hs, in, outFrames) ==
  [ out |-> [i \in 1..outFrames |->
               TruncDiv(DownSum(hs, in, outFrames * 3, (i - 1) * 3,
                                FILTER_TAPS), RES_SCALE)],
    history |-> DownHistory(hs, in, outFrames * 3) ]

\* upsample3(in, out, inFrames) with _upHistory = hs
upsample3(hs, in, inFrames) ==
  [ out |-> [k \in 1..(inFrames * 3) |->
               TruncDiv(3 * UpSum(hs, in, inFrames, (k - 1) \div 3,
                                  (k - 1) % 3, UP_TAPS), RES_SCALE)],
    history |-> IF inFrames >= UP_HISTORY
                THEN LastOf(in, inFrames, UP_HISTORY) ELSE hs ]

\* a Resampler after init(): coefficient table set, both histories zero;
\* nothing fed to it and nothing returned by it yet
FreshResampler ==
  [ history |-> [i \in 1..HALF_TAPS |-> 0],
    upHistory |-> [i \in 1..UP_HISTORY |-> 0],
    fedDown |-> << >>, outDown |-> << >>,
    fedUp |-> << >>, outUp |-> << >>,
    calls |-> 0 ]

(***************************************************************************)
(* class NlmsFilter.  Samples, weights and the estimate are in units of    *)
(* 1/NQ, the step size in hundredths.  A filter is the record of its       *)
(* members: len, weights and refBuf (sequences of length len, empty when   *)
(* the pointers are null), pos; raw holds the weights of the last          *)
(* process() call before the sanity check, out its return value.           *)
(***************************************************************************)
NQ == 16
NLMS_W_MAX == 10
MaxNlmsCalls == 4
NlmsLens == {1, 2}
NlmsRefs == {-NQ, 0, 1, NQ}
NlmsPrimaries == {-NQ, 0, NQ}
NlmsSteps == {8, 100}

\* a default-constructed NlmsFilter
NoFilter ==
  [ len |-> 0, weights |-> << >>, refBuf |-> << >>, pos |-> 0,
    raw |-> << >>, out |-> 0, calls |-> 0, op |-> "none" ]

\* init(filterLength): destroy(), then zero-initialised arrays
NlmsInit(f, filterLength) ==
  [f EXCEPT !.len = filterLength,
            !.weights = [i \in 1..filterLength |-> 0],
            !.refBuf = [i \in 1..filterLength |-> 0],
            !.raw = [i \in 1..filterLength |-> 0],
            !.pos = 0]

\* reset(): memset of both arrays if they exist, _pos = 0
NlmsReset(f) ==
  [f EXCEPT !.weights = [i \in 1..f.len |-> 0],
            !.refBuf = [i \in 1..f.len |-> 0],
            !.pos = 0]

\* int idx = (_pos - i + _len) % _len, as a 1-based position
NlmsIdx(f, i) == CRem(f.pos - i + f.len, f.len) + 1

\* the sums of the first loop over i = 0 .. n-1: dot(weights, refBuffer)
\* (in units of 1/NQ^2) and the power of the reference
RECURSIVE NlmsDot(_, _, _)
NlmsDot(f, rb, n) ==
  IF n = 0 THEN 0
  ELSE f.weights[n] * rb[NlmsIdx(f, n - 1)] + NlmsDot(f, rb, n - 1)
RECURSIVE NlmsPower(_, _, _)
NlmsPower(f, rb, n) ==
  IF n = 0 THEN 0
  ELSE rb[NlmsIdx(f, n - 1)] * rb[NlmsIdx(f, n - 1)] + NlmsPower(f, rb, n - 1)

\* normStep * error * r with normStep = stepSize / (power + 1e-6f).  The
\* floor 1e-6 is below the resolution 1/NQ^2 of a non-zero power; with
\* power 0 every r is 0 and the product is 0.
NlmsDelta(stepSize, error, r, power) ==
  IF power = 0 THEN 0
  ELSE TruncDiv(stepSize * error * r * NQ, 100 * power)

\* Variant of GuardWeight without the sanity check.
GuardWeight_off(w) == w

\* if (fabsf(_weights[i]) > 10.0f) _weights[i] = 0.0f
GuardWeight(w) == IF Abs(w) > NLMS_W_MAX * NQ THEN 0 ELSE w

\* Variant of process() that returns the estimate of the updated weights.
NlmsProcess_updateFirst(f, ref, primary, stepSize) ==
  IF f.len <= 0 THEN [f EXCEPT !.out = 0]
  ELSE LET rb == [f.refBuf EXCEPT ![f.pos + 1] = ref]
           estimate == TruncDiv(NlmsDot(f, rb, f.len), NQ)
           power == NlmsPower(f, rb, f.len)
           error == primary - estimate
           raw == [i \in 1..f.len |->
                     f.weights[i]
                       + NlmsDelta(stepSize, error, rb[NlmsIdx(f, i - 1)], power)]
           g == [f EXCEPT !.weights = [i \in 1..f.len |-> GuardWeight(raw[i])]]
       IN  [f EXCEPT !.refBuf = rb,
                     !.raw = raw,
                     !.weights = g.weights,
                     !.pos = (f.pos + 1) % f.len,
                     !.out = TruncDiv(NlmsDot(g, rb, f.len), NQ)]

\* process(ref, primary, stepSize)
NlmsProcess(f, ref, primary, stepSize) ==
  IF f.len <= 0 THEN [f EXCEPT !.out = 0]
  ELSE LET rb == [f.refBuf EXCEPT ![f.pos + 1] = ref]
           estimate == TruncDiv(NlmsDot(f, rb, f.len), NQ)
           power == NlmsPower(f, rb, f.len)
           error == primary - estimate
           raw == [i \in 1..f.len |->
                     f.weights[i]
                       + NlmsDelta(stepSize, error, rb[NlmsIdx(f, i - 1)], power)]
       IN  [f EXCEPT !.refBuf = rb,
                     !.raw = raw,
                     !.weights = [i \in 1..f.len |-> GuardWeight(raw[i])],
                     !.pos = (f.pos + 1) % f.len,
                     !.out = estimate]

\* history of codec traffic: per worker, the codec reads and writes that
\* returned while the running flag was false (counted up to IoCap)
IoCap == 2
NoIo == [w \in Workers |-> [reads |-> 0, writes |-> 0]]
CountRead(io, w, run) ==
  IF run THEN io ELSE [io EXCEPT ![w].reads = Min(IoCap, @ + 1)]
CountWrite(io, w, run) ==
  IF run THEN io ELSE [io EXCEPT ![w].writes = Min(IoCap, @ + 1)]

FreshWorker ==
  [ pc |-> "none",
    codec |-> "none",
    localParams |-> DefaultParams,
    localParamsChanged |-> TRUE,
    prevNsEnabled |-> FALSE, prevNsMode |-> -1,
    prevVeEnabled |-> FALSE, prevVeFilterLength |-> -1,
    prevAgcEnabled |-> FALSE, prevAgcMode |-> -1,
    prevAgcCompressionGainDb |-> -1, prevAgcLimiterEnabled |-> TRUE,
    prevAgcTargetLevelDbfs |-> -99,
    prevVeAecActive |-> FALSE, prevVeAecMode |-> -1,
    prevVeAecFilterLen |-> -1,
    prevVeVadEnabled |-> FALSE, prevVeVadMode |-> -1,
    hpDetected |-> FALSE, hpDetectCounter |-> 0,
    aecOutputReady |-> FALSE,
    aecRingPos |-> 0, aecOutRingPos |-> 0,
    ri |-> 1,
    samplesRead |-> 0,
    blk |-> 0,
    floatL |-> Zeros, floatR |-> Zeros, floatHP |-> Zeros,
    outBuf |-> [L |-> Zeros, R |-> Zeros] ]

Init ==
  /\ params = DefaultParams
  /\ levels = DefaultLevels
  /\ paramsChanged = TRUE
  /\ running = FALSE
  /\ taskHandle = 0
  /\ mutex = Free
  /\ coef = [b \in BqNames |-> BYPASS]
  /\ zst = [b \in BqNames |-> "zero"]
  /\ h = [n \in HandleNames |-> "null"]
  /\ codec = [inGain |-> 0, volume |-> 0, mute |-> TRUE, speaker |-> TRUE,
              unmuted |-> FALSE]
  /\ codecOut = [L |-> << >>, R |-> << >>]
  /\ cpc = "idle"
  /\ pending = NoCall
  /\ ret = [kind |-> "none", params |-> DefaultParams,
            levels |-> DefaultLevels, running |-> FALSE]
  /\ calls = 0
  /\ nworkers = 0
  /\ wk = [w \in Workers |-> FreshWorker]
  /\ blocks = 0
  /\ hist = [unmuteAsked |-> FALSE, stopCalled |-> FALSE,
             stopReturned |-> FALSE,
             codecFailed |-> FALSE,
             lastSetParams |-> [valid |-> FALSE, p |-> DefaultParams],
             ioAfterClear |-> NoIo,
             levelsOf |-> [hp |-> 0, lr |-> 0]]
  /\ nlms = NoFilter
  /\ rs = FreshResampler
  /\ bq = FreshBiquad
  /\ nlf = NoNlf
  /\ mix = NoMix


(***************************************************************************)
(* Handle creation: createNsHandles / createAgcHandles / createAecHandles  *)
(* create the left and the right handle and, if either creation failed,    *)
(* destroy both.  okL, okR: whether the library call succeeded.            *)
(***************************************************************************)
CreatePair(okL, okR) == IF okL /\ okR THEN "live" ELSE "null"
\* Variant of createNsHandles that leaves a created sibling in place.
createNsHandles_keepsSibling(hh, okL, okR) ==
  [hh EXCEPT !["nsL"] = IF okL THEN "live" ELSE "null",
             !["nsR"] = IF okR THEN "live" ELSE "null"]

createNsHandles(hh, okL, okR) ==
  [hh EXCEPT !["nsL"] = CreatePair(okL, okR), !["nsR"] = CreatePair(okL, okR)]
createAgcHandles(hh, okL, okR) ==
  [hh EXCEPT !["agcL"] = CreatePair(okL, okR), !["agcR"] = CreatePair(okL, okR)]
createAecHandles(hh, okL, okR) ==
  [hh EXCEPT !["aecL"] = CreatePair(okL, okR), !["aecR"] = CreatePair(okL, okR)]
createVadHandle(hh, ok) == [hh EXCEPT !["vad"] = IF ok THEN "live" ELSE "null"]
destroyNsHandles(hh) == [hh EXCEPT !["nsL"] = "null", !["nsR"] = "null"]
destroyAgcHandles(hh) == [hh EXCEPT !["agcL"] = "null", !["agcR"] = "null"]
destroyAecHandles(hh) == [hh EXCEPT !["aecL"] = "null", !["aecR"] = "null"]
destroyVadHandle(hh) == [hh EXCEPT !["vad"] = "null"]
destroyNlms(hh) == [hh EXCEPT !["nlmsL"] = "null", !["nlmsR"] = "null"]

(***************************************************************************)
(* The caller thread (UI / lifecycle).  Every API function takes the       *)
(* engine mutex first (std::lock_guard): CallLock is the acquisition, the  *)
(* ...Body actions are the guarded section up to the release.              *)
(***************************************************************************)
SetterOps == { "setMicGain", "setHpf", "setLpf", "setEqLow", "setEqMid",
  "setEqHigh", "setNsEnabled", "setNsMode", "setAgcEnabled", "setAgcMode",
  "setAgcCompressionGain", "setAgcLimiterEnabled", "setAgcTargetLevel",
  "setVeEnabled", "setVeBlend", "setVeStepSize", "setVeFilterLength",
  "setVeMaxAttenuation", "setVeRefGain", "setVeRefHpf", "setVeRefLpf",
  "setVeMode", "setVeAecMode", "setVeAecFilterLen", "setVeVadEnabled",
  "setVeVadMode", "setOutputGain", "setOutputVolume", "setMute", "setParams" }
GetterOps == { "getParams", "getLevels", "isRunning" }

\* Whether call c asks for the output to be un-muted.
AsksUnmute(c) ==
  \/ c.op = "setMute" /\ ~c.b
  \/ c.op = "setParams" /\ ~c.p.outputMute

CallLock(c, maxCalls) ==
  /\ cpc = "idle"
  /\ calls < maxCalls
  /\ mutex = Free
  /\ (c.op = "start" /\ ~running) => nworkers < MaxWorkers
  /\ mutex' = ByCaller
  /\ pending' = IF c.op \in SetterOps \cup GetterOps THEN c ELSE NoCall
  /\ calls' = calls + 1
  /\ cpc' = CASE c.op \in SetterOps -> "set_cs"
              [] c.op \in GetterOps -> "get_cs"
              [] c.op = "start" -> "start_cs"
              [] c.op = "stop" -> "stop_cs"
  /\ hist' = [hist EXCEPT !.unmuteAsked = @ \/ AsksUnmute(c),
                          !.stopCalled = @ \/ c.op = "stop",
                          !.stopReturned = @ /\ c.op # "start"]
  /\ UNCHANGED << params, levels, paramsChanged, running, taskHandle, coef,
                  zst, h, codec, codecOut, ret, nworkers, wk, blocks, nlms, rs, bq, nlf, mix >>

\* set*(...) and setParams: mutate _params, _paramsChanged = true, unlock
SetBody ==
  /\ cpc = "set_cs"
  /\ params' = ApplyCall(params, pending)
  /\ paramsChanged' = TRUE
  /\ pending' = NoCall
  /\ mutex' = Free
  /\ cpc' = "idle"
  /\ hist' = [hist EXCEPT !.lastSetParams =
                IF pending.op = "setParams"
                THEN [valid |-> TRUE, p |-> pending.p]
                ELSE [valid |-> FALSE, p |-> DefaultParams]]
  /\ UNCHANGED << levels, running, taskHandle, coef, zst, h, codec, codecOut,
                  ret, calls, nworkers, wk, blocks, nlms, rs, bq, nlf, mix >>

\* getParams / getLevels / isRunning: return a copy of the one member the
\* function returns, unlock
GetBody ==
  /\ cpc = "get_cs"
  /\ ret' = [kind |-> pending.op,
             params |-> IF pending.op = "getParams" THEN params
                        ELSE DefaultParams,
             levels |-> IF pending.op = "getLevels" THEN levels
                        ELSE DefaultLevels,
             running |-> IF pending.op = "isRunning" THEN running ELSE FALSE]
  /\ pending' = NoCall
  /\ mutex' = Free
  /\ cpc' = "idle"
  /\ UNCHANGED << params, levels, paramsChanged, running, taskHandle, coef,
                  zst, h, codec, codecOut, calls, nworkers, wk, hist, blocks, nlms, rs, bq, nlf, mix >>

\* variant: start() that marks the parameters dirty before it looks at
\* _running
StartNoop_dirty ==
  /\ cpc = "start_cs"
  /\ running
  /\ paramsChanged' = TRUE
  /\ mutex' = Free
  /\ cpc' = "idle"
  /\ UNCHANGED << params, levels, running, taskHandle, coef, zst, h, codec,
                  codecOut, pending, ret, calls, nworkers, wk, hist, blocks, nlms, rs, bq, nlf, mix >>

\* start(), already running: log and return
StartNoop ==
  /\ cpc = "start_cs"
  /\ running
  /\ mutex' = Free
  /\ cpc' = "idle"
  /\ UNCHANGED << params, levels, paramsChanged, running, taskHandle, coef,
                  zst, h, codec, codecOut, pending, ret, calls, nworkers, wk, hist, blocks, nlms, rs, bq, nlf, mix >>

\* start(), not running: flags, speaker off, reset filters, NS/AGC handles,
\* create the task
StartBody ==
  /\ cpc = "start_cs"
  /\ ~running
  /\ running' = TRUE
  /\ paramsChanged' = TRUE
  /\ codec' = [codec EXCEPT !.speaker = FALSE]
  /\ zst' = [b \in BqNames |-> "zero"]
  /\ \E nsOkL, nsOkR, agcOkL, agcOkR \in BOOLEAN :
       LET h1 == IF params.nsEnabled
                 THEN createNsHandles(h, nsOkL, nsOkR) ELSE h
       IN  h' = IF params.agcEnabled
                THEN createAgcHandles(h1, agcOkL, agcOkR) ELSE h1
  /\ nworkers' = nworkers + 1
  /\ wk' = [wk EXCEPT ![nworkers + 1] = [FreshWorker EXCEPT !.pc = "entry"]]
  /\ taskHandle' = nworkers + 1
  /\ mutex' = Free
  /\ cpc' = "idle"
  /\ hist' = [hist EXCEPT !.ioAfterClear = NoIo]
  /\ UNCHANGED << params, levels, coef, codecOut, pending, ret, calls, blocks, nlms, rs, bq, nlf, mix >>

\* stop(), first block: return if not running, else _running = false
StopCs ==
  /\ cpc = "stop_cs"
  /\ running' = FALSE
  /\ mutex' = Free
  /\ cpc' = IF running THEN "stop_wait" ELSE "idle"
  /\ hist' = [hist EXCEPT !.stopReturned = @ \/ ~running]
  /\ UNCHANGED << params, levels, paramsChanged, taskHandle, coef, zst, h,
                  codec, codecOut, pending, ret, calls, nworkers, wk, blocks, nlms, rs, bq, nlf, mix >>

\* stop(): if (_taskHandle) { vTaskDelay(50 ms); _taskHandle = nullptr; }
\* The delay is a sleep, not a join: it returns whatever the task is doing.
StopWait ==
  /\ cpc = "stop_wait"
  /\ taskHandle' = 0
  /\ cpc' = "stop_destroy"
  /\ UNCHANGED << params, levels, paramsChanged, running, mutex, coef, zst, h,
                  codec, codecOut, pending, ret, calls, nworkers, wk, hist, blocks, nlms, rs, bq, nlf, mix >>

\* stop(): destroy the NS, AGC, NLMS, AEC and VAD handles
StopDestroy ==
  /\ cpc = "stop_destroy"
  /\ h' = destroyVadHandle(destroyAecHandles(destroyNlms(
            destroyAgcHandles(destroyNsHandles(h)))))
  /\ nlf' = NoNlf
  /\ cpc' = "stop_mute"
  /\ UNCHANGED << params, levels, paramsChanged, running, taskHandle, mutex,
                  coef, zst, codec, codecOut, pending, ret, calls, nworkers,
                  wk, hist, blocks, nlms, rs, bq, mix >>

\* stop(): mute the codec if its handle is there, speaker amplifier back on
StopMute ==
  /\ cpc = "stop_mute"
  /\ \E codecOk \in BOOLEAN :
       codec' = [codec EXCEPT !.mute = IF codecOk THEN TRUE ELSE @,
                              !.speaker = TRUE]
  /\ cpc' = "idle"
  /\ hist' = [hist EXCEPT !.stopReturned = TRUE]
  /\ UNCHANGED << params, levels, paramsChanged, running, taskHandle, mutex,
                  coef, zst, h, codecOut, pending, ret, calls, nworkers, wk, blocks, nlms, rs, bq, nlf, mix >>


(***************************************************************************)
(* The worker task: processLoop().                                         *)
(* wk[w].pc is the position of worker w:                                   *)
(*   none     the task does not exist                                      *)
(*   entry    at bsp_get_codec_handle()                                    *)
(*   top      at the lock_guard at the top of the loop                     *)
(*   top_cs   holding the mutex there                                      *)
(*   apply    at "if (localParamsChanged)"                                 *)
(*   recalc   in recalcAllCoeffs(), before its ri-th calc...Coeffs call    *)
(*   read     blocked in i2s_read                                          *)
(*   ...      the stages of one block, see the actions                     *)
(*   write    blocked in i2s_write                                         *)
(*   done     the task has left processLoop                                *)
(***************************************************************************)
Upd(w, r) == wk' = [wk EXCEPT ![w] = r]

\* variant: an entry that returns on a missing codec handle without
\* clearing _running
WEntry_keepsRunning(w) ==
  /\ wk[w].pc = "entry"
  /\ \E codecOk \in BOOLEAN :
       IF codecOk
       THEN /\ codec' = [codec EXCEPT !.volume = 100, !.mute = TRUE]
            /\ Upd(w, [wk[w] EXCEPT !.pc = "top", !.codec = "ok"])
            /\ UNCHANGED hist
       ELSE /\ Upd(w, [wk[w] EXCEPT !.pc = "done", !.codec = "null"])
            /\ hist' = [hist EXCEPT !.codecFailed = TRUE]
            /\ UNCHANGED codec
  /\ UNCHANGED << params, levels, paramsChanged, running, taskHandle, mutex,
                  coef, zst, h, codecOut, cpc, pending, ret, calls, nworkers,
                  blocks, nlms, rs, bq, nlf, mix >>

\* processLoop, from its entry to the loop: the codec handle, the codec set
\* up (volume 100, muted), the buffers and the locals.
WEntry(w) ==
  /\ wk[w].pc = "entry"
  /\ \E codecOk \in BOOLEAN :
       IF codecOk
       THEN /\ codec' = [codec EXCEPT !.volume = 100, !.mute = TRUE]
            /\ Upd(w, [wk[w] EXCEPT !.pc = "top", !.codec = "ok"])
            /\ UNCHANGED << running, mutex, hist >>
       ELSE \* lock_guard; _running = false; return
            /\ mutex = Free
            /\ running' = FALSE
            /\ Upd(w, [wk[w] EXCEPT !.pc = "done", !.codec = "null"])
            /\ hist' = [hist EXCEPT !.codecFailed = TRUE]
            /\ UNCHANGED << codec, mutex >>
  /\ UNCHANGED << params, levels, paramsChanged, taskHandle, coef, zst, h,
                  codecOut, cpc, pending, ret, calls, nworkers, blocks, nlms, rs, bq, nlf, mix >>

\* std::lock_guard<std::mutex> lock(_mutex) at the top of the loop
WTopLock(w) ==
  /\ wk[w].pc = "top"
  /\ mutex = Free
  /\ mutex' = ByWorker(w)
  /\ Upd(w, [wk[w] EXCEPT !.pc = "top_cs"])
  /\ UNCHANGED << params, levels, paramsChanged, running, taskHandle, coef,
                  zst, h, codec, codecOut, cpc, pending, ret, calls, nworkers, hist, blocks, nlms, rs, bq, nlf, mix >>

\* variant: a snapshot step that clears _paramsChanged without copying
Snapshot_dropped(local, localChanged, shared, changed) ==
  [localParams |-> local, localParamsChanged |-> localChanged,
   paramsChanged |-> FALSE]

\* The snapshot: if (_paramsChanged) { localParams = _params;
\* localParamsChanged = true; _paramsChanged = false; }
\* Gives the new localParams, localParamsChanged and _paramsChanged.
Snapshot(local, localChanged, shared, changed) ==
  IF changed
  THEN [localParams |-> shared, localParamsChanged |-> TRUE,
        paramsChanged |-> FALSE]
  ELSE [localParams |-> local, localParamsChanged |-> localChanged,
        paramsChanged |-> changed]

\* if (!_running) break; then the snapshot; then the lock_guard's release
\* Variant of WTopCs that never looks at the running flag.
WTopCs_ignoresFlag(w) ==
  /\ wk[w].pc = "top_cs"
  /\ LET s == Snapshot(wk[w].localParams, wk[w].localParamsChanged,
                       params, paramsChanged)
     IN  /\ Upd(w, [wk[w] EXCEPT !.pc = "apply",
                      !.localParams = s.localParams,
                      !.localParamsChanged = s.localParamsChanged])
         /\ paramsChanged' = s.paramsChanged
  /\ mutex' = Free
  /\ UNCHANGED << params, levels, running, taskHandle, coef, zst, h, codec,
                  codecOut, cpc, pending, ret, calls, nworkers, hist, blocks, nlms, rs, bq, nlf, mix >>

WTopCs(w) ==
  /\ wk[w].pc = "top_cs"
  /\ IF ~running
     THEN /\ Upd(w, [wk[w] EXCEPT !.pc = "exit"])
          /\ UNCHANGED paramsChanged
     ELSE LET s == Snapshot(wk[w].localParams, wk[w].localParamsChanged,
                            params, paramsChanged)
          IN  /\ Upd(w, [wk[w] EXCEPT !.pc = "apply",
                           !.localParams = s.localParams,
                           !.localParamsChanged = s.localParamsChanged])
              /\ paramsChanged' = s.paramsChanged
  /\ mutex' = Free
  /\ UNCHANGED << params, levels, running, taskHandle, coef, zst, h, codec,
                  codecOut, cpc, pending, ret, calls, nworkers, hist, blocks, nlms, rs, bq, nlf, mix >>

\* The handle management of a dirty iteration (NS, NLMS, AEC, VAD, AGC), on
\* the handle pointers hh and the worker's locals r with snapshot lp.
\* ok: which library creations succeed.
ApplyNs(hh, r, lp, ok) ==
  IF lp.nsEnabled # r.prevNsEnabled \/ lp.nsMode # r.prevNsMode
  THEN [h |-> IF lp.nsEnabled
              THEN createNsHandles(destroyNsHandles(hh), ok.nsL, ok.nsR)
              ELSE destroyNsHandles(hh),
        r |-> [r EXCEPT !.prevNsEnabled = lp.nsEnabled,
                        !.prevNsMode = lp.nsMode]]
  ELSE [h |-> hh, r |-> r]

ApplyVe(hh, r, lp) ==
  IF lp.veEnabled # r.prevVeEnabled
     \/ lp.veFilterLength # r.prevVeFilterLength
  THEN [h |-> IF lp.veEnabled
              THEN [hh EXCEPT !["nlmsL"] = "live", !["nlmsR"] = "live"]
              ELSE destroyNlms(hh),
        r |-> [r EXCEPT !.prevVeEnabled = lp.veEnabled,
                        !.prevVeFilterLength = lp.veFilterLength]]
  ELSE [h |-> hh, r |-> r]


\* variant: the filters are re-created in every dirty iteration with voice
\* exclusion enabled
ApplyNlms_always(f, r, lp) ==
  IF lp.veEnabled THEN NlfInit(lp.veFilterLength) ELSE NoNlf

\* The same branch of the handle management, on the filter objects: delete
\* and new + init(veFilterLength), or delete
ApplyNlms(f, r, lp) ==
  IF lp.veEnabled # r.prevVeEnabled
     \/ lp.veFilterLength # r.prevVeFilterLength
  THEN IF lp.veEnabled THEN NlfInit(lp.veFilterLength) ELSE NoNlf
  ELSE f

ApplyAec(hh, r, lp, ok) ==
  LET aecWanted == lp.veEnabled /\ lp.veMode = 1 IN
  IF aecWanted # r.prevVeAecActive \/ lp.veAecMode # r.prevVeAecMode
     \/ lp.veAecFilterLen # r.prevVeAecFilterLen
  THEN [h |-> IF aecWanted
              THEN createAecHandles(destroyAecHandles(hh), ok.aecL, ok.aecR)
              ELSE destroyAecHandles(hh),
        r |-> [r EXCEPT !.prevVeAecActive = aecWanted,
                        !.prevVeAecMode = lp.veAecMode,
                        !.prevVeAecFilterLen = lp.veAecFilterLen,
                        !.aecRingPos = IF aecWanted THEN 0 ELSE @,
                        !.aecOutRingPos = IF aecWanted THEN 0 ELSE @,
                        !.aecOutputReady = IF aecWanted THEN FALSE ELSE @]]
  ELSE [h |-> hh, r |-> r]

ApplyVad(hh, r, lp, ok) ==
  LET vadWanted == lp.veEnabled /\ lp.veMode = 1 /\ lp.veVadEnabled IN
  IF vadWanted # r.prevVeVadEnabled \/ lp.veVadMode # r.prevVeVadMode
  THEN [h |-> IF vadWanted
              THEN createVadHandle(destroyVadHandle(hh), ok.vad)
              ELSE destroyVadHandle(hh),
        r |-> [r EXCEPT !.prevVeVadEnabled = vadWanted,
                        !.prevVeVadMode = lp.veVadMode]]
  ELSE [h |-> hh, r |-> r]

ApplyAgc(hh, r, lp, ok) ==
  IF lp.agcEnabled # r.prevAgcEnabled \/ lp.agcMode # r.prevAgcMode
     \/ lp.agcCompressionGainDb # r.prevAgcCompressionGainDb
     \/ lp.agcLimiterEnabled # r.prevAgcLimiterEnabled
     \/ lp.agcTargetLevelDbfs # r.prevAgcTargetLevelDbfs
  THEN [h |-> IF lp.agcEnabled
              THEN createAgcHandles(destroyAgcHandles(hh), ok.agcL, ok.agcR)
              ELSE destroyAgcHandles(hh),
        r |-> [r EXCEPT !.prevAgcEnabled = lp.agcEnabled,
                        !.prevAgcMode = lp.agcMode,
                        !.prevAgcCompressionGainDb = lp.agcCompressionGainDb,
                        !.prevAgcLimiterEnabled = lp.agcLimiterEnabled,
                        !.prevAgcTargetLevelDbfs = lp.agcTargetLevelDbfs]]
  ELSE [h |-> hh, r |-> r]

ApplyHandles(hh, r, lp, ok) ==
  LET a == ApplyNs(hh, r, lp, ok)
      b == ApplyVe(a.h, a.r, lp)
      c == ApplyAec(b.h, b.r, lp, ok)
      d == ApplyVad(c.h, c.r, lp, ok)
  IN  ApplyAgc(d.h, d.r, lp, ok)

\* Which creations can fail matters only for the features that are wanted.
OkChoices(lp) ==
  [ nsL : IF lp.nsEnabled THEN BOOLEAN ELSE {TRUE},
    nsR : IF lp.nsEnabled THEN BOOLEAN ELSE {TRUE},
    agcL : IF lp.agcEnabled THEN BOOLEAN ELSE {TRUE},
    agcR : IF lp.agcEnabled THEN BOOLEAN ELSE {TRUE},
    aecL : IF lp.veEnabled /\ lp.veMode = 1 THEN BOOLEAN ELSE {TRUE},
    aecR : IF lp.veEnabled /\ lp.veMode = 1 THEN BOOLEAN ELSE {TRUE},
    vad : IF lp.veEnabled /\ lp.veMode = 1 /\ lp.veVadEnabled
          THEN BOOLEAN ELSE {TRUE} ]


\* variant: the worker applies its snapshot in every iteration, whether the
\* dirty flag was set or not
WApply_always(w) ==
  /\ wk[w].pc = "apply"
  /\ LET lp == wk[w].localParams IN
     /\ codec' = [codec EXCEPT !.inGain = lp.micGain,
                               !.volume = lp.outputVolume,
                               !.mute = lp.outputMute,
                               !.unmuted = @ \/ ~lp.outputMute]
     /\ \E ok \in OkChoices(lp) :
          LET a == ApplyHandles(h, wk[w], lp, ok) IN
          /\ h' = a.h
          /\ nlf' = ApplyNlms(nlf, wk[w], lp)
          /\ Upd(w, [a.r EXCEPT !.pc = "recalc", !.ri = 1,
                                !.localParamsChanged = FALSE])
  /\ UNCHANGED << params, levels, paramsChanged, running, taskHandle, mutex,
                  coef, zst, codecOut, cpc, pending, ret, calls, nworkers, hist, blocks, nlms, rs, bq, mix >>

\* if (localParamsChanged) { localParamsChanged = false; set_in_gain;
\* set_volume; set_mute; the handle management; ... } up to recalcAllCoeffs
WApply(w) ==
  /\ wk[w].pc = "apply"
  /\ IF wk[w].localParamsChanged
     THEN LET lp == wk[w].localParams IN
          /\ codec' = [codec EXCEPT !.inGain = lp.micGain,
                                    !.volume = lp.outputVolume,
                                    !.mute = lp.outputMute,
                                    !.unmuted = @ \/ ~lp.outputMute]
          /\ \E ok \in OkChoices(lp) :
               LET a == ApplyHandles(h, wk[w], lp, ok) IN
               /\ h' = a.h
               /\ nlf' = ApplyNlms(nlf, wk[w], lp)
               /\ Upd(w, [a.r EXCEPT !.pc = "recalc", !.ri = 1,
                                     !.localParamsChanged = FALSE])
     ELSE /\ Upd(w, [wk[w] EXCEPT !.pc = "read"])
          /\ UNCHANGED << codec, h, nlf >>
  /\ UNCHANGED << params, levels, paramsChanged, running, taskHandle, mutex,
                  coef, zst, codecOut, cpc, pending, ret, calls, nworkers, hist, blocks, nlms, rs, bq, mix >>

\* The record recalcAllCoeffs takes the frequencies and gains from: the
\* member _params (not the worker's localParams).
RecalcParams(shared, local) == shared

\* recalcAllCoeffs(): its ri-th calc...Coeffs call; after the last one the
\* worker goes on to i2s_read.
WRecalc(w) ==
  /\ wk[w].pc = "recalc"
  /\ LET b == BqOrder[wk[w].ri]
         last == wk[w].ri = Len(BqOrder)
     IN  /\ coef' = [coef EXCEPT
                       ![b] = CoeffFor(b, RecalcParams(params,
                                                       wk[w].localParams))]
         /\ Upd(w, [wk[w] EXCEPT !.ri = IF last THEN 1 ELSE @ + 1,
                                 !.pc = IF last THEN "read" ELSE "recalc"])
  /\ UNCHANGED << params, levels, paramsChanged, running, taskHandle, mutex,
                  zst, h, codec, codecOut, cpc, pending, ret, calls, nworkers,
                  hist, blocks, nlms, rs, bq, nlf, mix >>


(***************************************************************************)
(* Sample arithmetic of one block.                                         *)
(***************************************************************************)
\* (float)inBuf[..] * (1.0f / 32768.0f), in units of 1/FS
ToFloat(s) == TruncDiv(s * FS, I16SCALE)

RECURSIVE IsqrtIn(_, _, _)
IsqrtIn(lo, hi, v) ==
  IF lo >= hi THEN lo
  ELSE LET mid == (lo + hi + 1) \div 2
       IN  IF mid * mid <= v THEN IsqrtIn(mid, hi, v)
           ELSE IsqrtIn(lo, mid - 1, v)
\* sqrtf of a non-negative value, rounded down
Isqrt(v) == IsqrtIn(0, SQRT_MAX, v)

RECURSIVE SumSq(_, _)
SumSq(X, n) ==
  IF n = 0 THEN 0
  ELSE TruncDiv(X[n], METER_RES) * TruncDiv(X[n], METER_RES) + SumSq(X, n - 1)
RECURSIVE PeakAbs(_, _)
PeakAbs(X, n) == IF n = 0 THEN 0 ELSE Max(Abs(X[n]), PeakAbs(X, n - 1))

\* sqrtf(sum / (float)samplesRead) over the first n samples of X
RmsOf(X, n) == METER_RES * Isqrt(SumSq(X, n) \div n)
\* Variant of PeakHold without the decay of the held value.
PeakHold_noDecay(pk, prev) == Max(pk, prev)

\* std::max(pk, previous * PEAK_DECAY)
PeakHold(pk, prev) == Max(pk, TruncDiv(prev * PEAK_DECAY, 100))

\* floatL[i] *= gain
ApplyGain(x, gain) == TruncDiv(x * gain, 100)
\* Variant of ToInt16 that clamps at [-2, 2] only: a scaled value beyond the
\* 16-bit range wraps.
ToInt16_wrapped(x) ==
  LET v == TruncDiv(Clamp(x, -2 * FS, 2 * FS) * I16MAX, FS)
  IN  ((v + I16SCALE) % (2 * I16SCALE)) - I16SCALE

\* (int16_t)(std::clamp(x, -1.0f, 1.0f) * 32767.0f)
ToInt16(x) == TruncDiv(Clamp(x, -FS, FS) * I16MAX, FS)
\* step 12 left out: the block goes to the codec as converted
ApplyMute_skipped(buf, n, mute) == buf
\* if (localParams.outputMute) memset(outBuf, 0, samplesRead * 2 * 2)
ApplyMute(buf, n, mute) ==
  IF mute
  THEN [L |-> [i \in 1..BlockLen |-> IF i <= n THEN 0 ELSE buf.L[i]],
        R |-> [i \in 1..BlockLen |-> IF i <= n THEN 0 ELSE buf.R[i]]]
  ELSE buf


\* variant: the estimate is subtracted without the attenuation clamp
VeNlmsOut_unclamped(x, est, blend, maxAtt) == x - TruncDiv(blend * est, 100)

\* The NLMS removal of one sample x given the upsampled estimate est:
\* rem = clamp(est, -|x|*maxAtt, |x|*maxAtt); x -= blend * rem
VeNlmsOut(x, est, blend, maxAtt) ==
  LET maxRem == TruncDiv(Abs(x) * maxAtt, 100)
      rem == Clamp(est, -maxRem, maxRem)
  IN  x - TruncDiv(blend * rem, 100)
\* The AEC blend of one sample: (1 - blend) * x + blend * clamp(aec, -1, 1)
VeAecOut(x, aec, blend) ==
  TruncDiv((100 - blend) * x + blend * Clamp(aec, -FS, FS), 100)

(***************************************************************************)
(* Biquad::process over a block.  The model does not compute the filter    *)
(* arithmetic: a biquad whose z1 = z2 = 0 and that has the bypass          *)
(* coefficients, or is fed zeros, returns its input and keeps z1 = z2 = 0; *)
(* any other biquad may return any sample (drawn from the set any) and its *)
(* state is then "hist" (not known to be zero).                            *)
(***************************************************************************)
Transparent(c, z, X, n) ==
  z = "zero" /\ (c = BYPASS \/ \A i \in 1..n : X[i] = 0)
\* the blocks process() may leave in X[1..n]
BqOuts(c, z, X, n, any) ==
  IF Transparent(c, z, X, n) THEN {X}
  ELSE { [i \in 1..BlockLen |-> IF i <= n THEN f[i] ELSE X[i]] :
           f \in [1..BlockLen -> any] }
BqState(c, z, X, n) == IF Transparent(c, z, X, n) THEN "zero" ELSE "hist"

\* The audio environment of a specification: the input frames the codec
\* may deliver and the samples filters and external helpers may produce.
Block(S) == [1..BlockLen -> S]
Frames(S) == [L : Block(S), R : Block(S), HP : Block(S)]
SilentEnv == [frames |-> Frames({0}), any |-> {0}, counted |-> FALSE]
LoudEnv == [frames |-> Frames({0, LOUD}), any |-> {-FS - LOUD},
            counted |-> TRUE]


(***************************************************************************)
(* One block: steps 1 to 13 of the loop.                                   *)
(***************************************************************************)
\* a filter stage of the chain: biquad b applied to X[1..n] if enabled
StageOuts(b, enabled, X, n, any) ==
  IF enabled THEN BqOuts(coef[b], zst[b], X, n, any) ELSE {X}
StageState(b, enabled, X, n) ==
  IF enabled THEN BqState(coef[b], zst[b], X, n) ELSE zst[b]

\* X with its first n samples replaced by those of Y
FirstN(X, Y, n) == [i \in 1..BlockLen |-> IF i <= n THEN Y[i] ELSE X[i]]

\* Variant of ShortRead that only treats a negative count as short.
ShortRead_negative(n) == n < 0

\* The test behind "continue": the read delivered less than one input frame.
ShortRead(n) == n <= 0

\* i2s_read returns.  A short read (samplesRead <= 0) continues with the
\* next iteration; otherwise steps 2 to 6: deinterleave and scale, HPF, LPF,
\* three EQ bands on L and R, reference gain and band-pass on HP.
WRead(w, env) ==
  /\ wk[w].pc = "read"
  /\ \E n \in 0..BlockLen :
       IF ShortRead(n)
       THEN /\ Upd(w, [wk[w] EXCEPT !.pc = "top", !.samplesRead = n])
            /\ UNCHANGED << zst, blocks >>
       ELSE \E fr \in env.frames :
            LET lp == wk[w].localParams
                l0 == FirstN(wk[w].floatL, [i \in 1..BlockLen |-> ToFloat(fr.L[i])], n)
                r0 == FirstN(wk[w].floatR, [i \in 1..BlockLen |-> ToFloat(fr.R[i])], n)
                p0 == FirstN(wk[w].floatHP, [i \in 1..BlockLen |->
                        ApplyGain(ToFloat(fr.HP[i]), lp.veRefGain)], n)
            IN
            \E l1 \in StageOuts("hpfL", lp.hpfEnabled, l0, n, env.any),
               r1 \in StageOuts("hpfR", lp.hpfEnabled, r0, n, env.any),
               p1 \in StageOuts("veRefHpfBq", TRUE, p0, n, env.any) :
            \E l2 \in StageOuts("lpfL", lp.lpfEnabled, l1, n, env.any),
               r2 \in StageOuts("lpfR", lp.lpfEnabled, r1, n, env.any),
               p2 \in StageOuts("veRefLpfBq", TRUE, p1, n, env.any) :
            \E l3 \in StageOuts("eqLowL", TRUE, l2, n, env.any),
               r3 \in StageOuts("eqLowR", TRUE, r2, n, env.any) :
            \E l4 \in StageOuts("eqMidL", TRUE, l3, n, env.any),
               r4 \in StageOuts("eqMidR", TRUE, r3, n, env.any) :
            \E l5 \in StageOuts("eqHighL", TRUE, l4, n, env.any),
               r5 \in StageOuts("eqHighR", TRUE, r4, n, env.any) :
              /\ env.counted => blocks < MaxBlocks
              /\ blocks' = IF env.counted THEN blocks + 1 ELSE blocks
              /\ zst' = [zst EXCEPT
                   !["hpfL"] = StageState("hpfL", lp.hpfEnabled, l0, n),
                   !["hpfR"] = StageState("hpfR", lp.hpfEnabled, r0, n),
                   !["lpfL"] = StageState("lpfL", lp.lpfEnabled, l1, n),
                   !["lpfR"] = StageState("lpfR", lp.lpfEnabled, r1, n),
                   !["eqLowL"] = StageState("eqLowL", TRUE, l2, n),
                   !["eqLowR"] = StageState("eqLowR", TRUE, r2, n),
                   !["eqMidL"] = StageState("eqMidL", TRUE, l3, n),
                   !["eqMidR"] = StageState("eqMidR", TRUE, r3, n),
                   !["eqHighL"] = StageState("eqHighL", TRUE, l4, n),
                   !["eqHighR"] = StageState("eqHighR", TRUE, r4, n),
                   !["veRefHpfBq"] = StageState("veRefHpfBq", TRUE, p0, n),
                   !["veRefLpfBq"] = StageState("veRefLpfBq", TRUE, p1, n)]
              /\ Upd(w, [wk[w] EXCEPT !.pc = "hpm", !.samplesRead = n,
                           !.blk = blocks',
                           !.floatL = l5, !.floatR = r5, !.floatHP = p2])
  /\ hist' = [hist EXCEPT !.ioAfterClear = CountRead(@, w, running)]
  /\ UNCHANGED << params, levels, paramsChanged, running, taskHandle, mutex,
                  coef, h, codec, codecOut, cpc, pending, ret, calls,
                  nworkers, nlms, rs, bq, nlf, mix >>

\* a std::lock_guard<std::mutex> lock(_mutex) inside the block: before the
\* HP meter (hpm), the VAD result (vad) and the L/R meter (met) updates
WLock(w) ==
  /\ wk[w].pc \in {"hpm", "vad", "met"}
  /\ mutex = Free
  /\ mutex' = ByWorker(w)
  /\ Upd(w, [wk[w] EXCEPT !.pc = CASE wk[w].pc = "hpm" -> "hpm_cs"
                                   [] wk[w].pc = "vad" -> "vad_cs"
                                   [] wk[w].pc = "met" -> "met_cs"])
  /\ UNCHANGED << params, levels, paramsChanged, running, taskHandle, coef,
                  zst, h, codec, codecOut, cpc, pending, ret, calls, nworkers, hist, blocks, nlms, rs, bq, nlf, mix >>

\* step 6b: _levels.rmsHP and _levels.peakHP
WHpmCs(w) ==
  /\ wk[w].pc = "hpm_cs"
  /\ levels' = [levels EXCEPT
       !.rmsHP = RmsOf(wk[w].floatHP, wk[w].samplesRead),
       !.peakHP = PeakHold(PeakAbs(wk[w].floatHP, wk[w].samplesRead), @)]
  /\ mutex' = Free
  /\ Upd(w, [wk[w] EXCEPT !.pc = "ve"])
  /\ hist' = [hist EXCEPT !.levelsOf.hp = wk[w].blk]
  /\ UNCHANGED << params, paramsChanged, running, taskHandle, coef, zst, h,
                  codec, codecOut, cpc, pending, ret, calls, nworkers, blocks, nlms, rs, bq, nlf, mix >>


\* variant: the headphone probe is called in every block
WVe_pollsEveryBlock(w) ==
  /\ wk[w].pc = "ve"
  /\ LET lp == wk[w].localParams
         poll == wk[w].hpDetectCounter + 1 >= HP_DETECT_INTERVAL
     IN  \E det \in BOOLEAN :
           Upd(w, [wk[w] EXCEPT
             !.hpDetectCounter = IF poll THEN 0 ELSE @ + 1,
             !.hpDetected = det,
             !.pc = IF lp.veEnabled /\ det /\ wk[w].samplesRead = BlockLen
                    THEN IF lp.veMode = 0 /\ h["nlmsL"] = "live"
                            /\ h["nlmsR"] = "live"
                         THEN "nlms"
                         ELSE IF lp.veMode = 1 /\ h["aecL"] = "live"
                                 /\ h["aecR"] = "live"
                              THEN "aec_push" ELSE "ns"
                    ELSE "ns"])
  /\ UNCHANGED << params, levels, paramsChanged, running, taskHandle, mutex,
                  coef, zst, h, codec, codecOut, cpc, pending, ret, calls,
                  nworkers, hist, blocks, nlms, rs, bq, nlf, mix >>

\* step 7: the headphone-detect poll and the choice of the voice-exclusion
\* path for this block
WVe(w) ==
  /\ wk[w].pc = "ve"
  /\ LET lp == wk[w].localParams
         poll == wk[w].hpDetectCounter + 1 >= HP_DETECT_INTERVAL
     IN  \E det \in IF poll THEN BOOLEAN ELSE {wk[w].hpDetected} :
           Upd(w, [wk[w] EXCEPT
             !.hpDetectCounter = IF poll THEN 0 ELSE @ + 1,
             !.hpDetected = det,
             !.pc = IF lp.veEnabled /\ det /\ wk[w].samplesRead = BlockLen
                    THEN IF lp.veMode = 0 /\ h["nlmsL"] = "live"
                            /\ h["nlmsR"] = "live"
                         THEN "nlms"
                         ELSE IF lp.veMode = 1 /\ h["aecL"] = "live"
                                 /\ h["aecR"] = "live"
                              THEN "aec_push" ELSE "ns"
                    ELSE "ns"])
  /\ UNCHANGED << params, levels, paramsChanged, running, taskHandle, mutex,
                  coef, zst, h, codec, codecOut, cpc, pending, ret, calls,
                  nworkers, hist, blocks, nlms, rs, bq, nlf, mix >>

\* NLMS mode: downsample, NlmsFilter::process per sample, upsample, and the
\* clamped, blended subtraction.  The estimates are drawn from env.any.
WNlms(w, env) ==
  /\ wk[w].pc = "nlms"
  /\ LET lp == wk[w].localParams IN
     \E eL \in Block(env.any), eR \in Block(env.any) :
       Upd(w, [wk[w] EXCEPT !.pc = "ns",
         !.floatL = [i \in 1..BlockLen |->
            VeNlmsOut(@[i], eL[i], lp.veBlend, lp.veMaxAttenuation)],
         !.floatR = [i \in 1..BlockLen |->
            VeNlmsOut(@[i], eR[i], lp.veBlend, lp.veMaxAttenuation)]])
  /\ nlf' = NlfProcess(nlf)
  /\ UNCHANGED << params, levels, paramsChanged, running, taskHandle, mutex,
                  coef, zst, h, codec, codecOut, cpc, pending, ret, calls,
                  nworkers, hist, blocks, nlms, rs, bq, mix >>

\* Variant of AecRingBuf::push without the capacity test.
RingPush_unbounded(pos, count) == pos + count

\* AecRingBuf::push of count samples at write position pos
RingPush(pos, count) == Min(pos + count, AEC_FRAME_16K)

\* Variant of RingReady that reports a frame after one block.
RingReady_early(pos) == pos >= NS_FRAME_16K

\* AecRingBuf::ready()
RingReady(pos) == pos >= AEC_FRAME_16K

\* AEC mode: downsample and push 160 samples into the input rings; when
\* they hold 512 samples, go on to VAD (if there is a handle) and AEC
WAecPush(w) ==
  /\ wk[w].pc = "aec_push"
  /\ LET pos == RingPush(wk[w].aecRingPos, NS_FRAME_16K) IN
     Upd(w, [wk[w] EXCEPT !.aecRingPos = pos,
       !.pc = IF RingReady(pos)
              THEN IF h["vad"] = "live" THEN "vad" ELSE "aec_proc"
              ELSE "aec_blend"])
  /\ UNCHANGED << params, levels, paramsChanged, running, taskHandle, mutex,
                  coef, zst, h, codec, codecOut, cpc, pending, ret, calls,
                  nworkers, hist, blocks, nlms, rs, bq, nlf, mix >>

\* vad_process has returned: _levels.vadSpeechDetected under the mutex
WVadCs(w) ==
  /\ wk[w].pc = "vad_cs"
  /\ \E speech \in BOOLEAN :
       levels' = [levels EXCEPT !.vadSpeechDetected = speech]
  /\ mutex' = Free
  /\ Upd(w, [wk[w] EXCEPT !.pc = "aec_proc"])
  /\ UNCHANGED << params, paramsChanged, running, taskHandle, coef, zst, h,
                  codec, codecOut, cpc, pending, ret, calls, nworkers, hist, blocks, nlms, rs, bq, nlf, mix >>

\* aec_process on both channels, output frame into the output rings, input
\* rings consumed
WAecProc(w) ==
  /\ wk[w].pc = "aec_proc"
  /\ Upd(w, [wk[w] EXCEPT !.pc = "aec_blend", !.aecOutRingPos = AEC_FRAME_16K,
                          !.aecRingPos = 0, !.aecOutputReady = TRUE])
  /\ UNCHANGED << params, levels, paramsChanged, running, taskHandle, mutex,
                  coef, zst, h, codec, codecOut, cpc, pending, ret, calls,
                  nworkers, hist, blocks, nlms, rs, bq, nlf, mix >>

\* number of model samples that stand for the first outCount of the
\* BLOCK_SIZE samples of a block
Covered(outCount) == (BlockLen * outCount + BLOCK_SIZE - 1) \div BLOCK_SIZE

\* drain up to 160 samples of AEC output, upsample, blend into the block
WAecBlend(w, env) ==
  /\ wk[w].pc = "aec_blend"
  /\ IF wk[w].aecOutputReady /\ wk[w].aecOutRingPos > 0
     THEN LET consumeCount == Min(NS_FRAME_16K, wk[w].aecOutRingPos)
              m == Min(wk[w].samplesRead, Covered(consumeCount * 3))
              lp == wk[w].localParams
          IN  \E aL \in Block(env.any), aR \in Block(env.any) :
                Upd(w, [wk[w] EXCEPT !.pc = "ns",
                  !.aecOutRingPos = @ - consumeCount,
                  !.floatL = [i \in 1..BlockLen |-> IF i <= m
                      THEN VeAecOut(@[i], aL[i], lp.veBlend) ELSE @[i]],
                  !.floatR = [i \in 1..BlockLen |-> IF i <= m
                      THEN VeAecOut(@[i], aR[i], lp.veBlend) ELSE @[i]]])
     ELSE Upd(w, [wk[w] EXCEPT !.pc = "ns"])
  /\ UNCHANGED << params, levels, paramsChanged, running, taskHandle, mutex,
                  coef, zst, h, codec, codecOut, cpc, pending, ret, calls,
                  nworkers, hist, blocks, nlms, rs, bq, nlf, mix >>


\* Variant of WNs in which missing NS handles end the loop.
WNs_unwinds(w) ==
  /\ wk[w].pc = "ns"
  /\ Upd(w, [wk[w] EXCEPT !.pc =
       IF wk[w].localParams.nsEnabled /\ wk[w].samplesRead = BlockLen
       THEN IF h["nsL"] = "live" /\ h["nsR"] = "live"
            THEN "ns_call" ELSE "exit"
       ELSE "agc"])
  /\ UNCHANGED << params, levels, paramsChanged, running, taskHandle, mutex,
                  coef, zst, h, codec, codecOut, cpc, pending, ret, calls,
                  nworkers, hist, blocks, nlms, rs, bq, nlf, mix >>

\* steps 8 and 8b: whether the NS / AGC stage runs on this block
WNs(w) ==
  /\ wk[w].pc = "ns"
  /\ Upd(w, [wk[w] EXCEPT !.pc =
       IF wk[w].localParams.nsEnabled /\ h["nsL"] = "live"
          /\ h["nsR"] = "live" /\ wk[w].samplesRead = BlockLen
       THEN "ns_call" ELSE "agc"])
  /\ UNCHANGED << params, levels, paramsChanged, running, taskHandle, mutex,
                  coef, zst, h, codec, codecOut, cpc, pending, ret, calls,
                  nworkers, hist, blocks, nlms, rs, bq, nlf, mix >>

\* downsample, ns_process on L and on R, upsample: the block is replaced by
\* what the helper returns
WNsCall(w, env) ==
  /\ wk[w].pc = "ns_call"
  /\ \E oL \in Block(env.any), oR \in Block(env.any) :
       Upd(w, [wk[w] EXCEPT !.pc = "agc", !.floatL = oL, !.floatR = oR])
  /\ UNCHANGED << params, levels, paramsChanged, running, taskHandle, mutex,
                  coef, zst, h, codec, codecOut, cpc, pending, ret, calls,
                  nworkers, hist, blocks, nlms, rs, bq, nlf, mix >>

WAgc(w) ==
  /\ wk[w].pc = "agc"
  /\ Upd(w, [wk[w] EXCEPT !.pc =
       IF wk[w].localParams.agcEnabled /\ h["agcL"] = "live"
          /\ h["agcR"] = "live" /\ wk[w].samplesRead = BlockLen
       THEN "agc_call" ELSE "gain"])
  /\ UNCHANGED << params, levels, paramsChanged, running, taskHandle, mutex,
                  coef, zst, h, codec, codecOut, cpc, pending, ret, calls,
                  nworkers, hist, blocks, nlms, rs, bq, nlf, mix >>

\* downsample, esp_agc_process on L and on R, upsample
WAgcCall(w, env) ==
  /\ wk[w].pc = "agc_call"
  /\ \E oL \in Block(env.any), oR \in Block(env.any) :
       Upd(w, [wk[w] EXCEPT !.pc = "gain", !.floatL = oL, !.floatR = oR])
  /\ UNCHANGED << params, levels, paramsChanged, running, taskHandle, mutex,
                  coef, zst, h, codec, codecOut, cpc, pending, ret, calls,
                  nworkers, hist, blocks, nlms, rs, bq, nlf, mix >>

\* step 9: output gain on the first samplesRead samples
WGain(w) ==
  /\ wk[w].pc = "gain"
  /\ LET g == wk[w].localParams.outputGain
         n == wk[w].samplesRead
     IN  Upd(w, [wk[w] EXCEPT !.pc = "met",
           !.floatL = [i \in 1..BlockLen |->
                         IF i <= n THEN ApplyGain(@[i], g) ELSE @[i]],
           !.floatR = [i \in 1..BlockLen |->
                         IF i <= n THEN ApplyGain(@[i], g) ELSE @[i]]])
  /\ UNCHANGED << params, levels, paramsChanged, running, taskHandle, mutex,
                  coef, zst, h, codec, codecOut, cpc, pending, ret, calls,
                  nworkers, hist, blocks, nlms, rs, bq, nlf, mix >>

\* steps 11 and 12: clamp, convert to int16, zero the block if muted
OutBlock(fL, fR, old, n, mute) ==
  ApplyMute([L |-> [i \in 1..BlockLen |->
                      IF i <= n THEN ToInt16(fL[i]) ELSE old.L[i]],
             R |-> [i \in 1..BlockLen |->
                      IF i <= n THEN ToInt16(fR[i]) ELSE old.R[i]]], n, mute)

\* variant: step 10 whose lock_guard lives to the end of the iteration, so
\* the mutex is still held in i2s_write
WMetCs_holding(w) ==
  /\ wk[w].pc = "met_cs"
  /\ LET n == wk[w].samplesRead IN
     /\ levels' = [levels EXCEPT
          !.rmsLeft = RmsOf(wk[w].floatL, n),
          !.rmsRight = RmsOf(wk[w].floatR, n),
          !.peakLeft = PeakHold(PeakAbs(wk[w].floatL, n), @),
          !.peakRight = PeakHold(PeakAbs(wk[w].floatR, n), @)]
     /\ Upd(w, [wk[w] EXCEPT !.pc = "write",
          !.outBuf = OutBlock(wk[w].floatL, wk[w].floatR, @, n,
                              wk[w].localParams.outputMute)])
  /\ hist' = [hist EXCEPT !.levelsOf.lr = wk[w].blk]
  /\ UNCHANGED << params, paramsChanged, running, taskHandle, mutex, coef,
                  zst, h, codec, codecOut, cpc, pending, ret, calls,
                  nworkers, blocks, nlms, rs, bq, nlf, mix >>


\* variant: the block is zeroed by mute before it is metered
WMetCs_afterMute(w) ==
  /\ wk[w].pc = "met_cs"
  /\ LET n == wk[w].samplesRead
         mL == IF wk[w].localParams.outputMute THEN Zeros ELSE wk[w].floatL
         mR == IF wk[w].localParams.outputMute THEN Zeros ELSE wk[w].floatR
     IN
     /\ levels' = [levels EXCEPT
          !.rmsLeft = RmsOf(mL, n),
          !.rmsRight = RmsOf(mR, n),
          !.peakLeft = PeakHold(PeakAbs(mL, n), @),
          !.peakRight = PeakHold(PeakAbs(mR, n), @)]
     /\ Upd(w, [wk[w] EXCEPT !.pc = "write",
          !.outBuf = OutBlock(wk[w].floatL, wk[w].floatR, @, n,
                              wk[w].localParams.outputMute)])
  /\ mutex' = Free
  /\ hist' = [hist EXCEPT !.levelsOf.lr = wk[w].blk]
  /\ UNCHANGED << params, paramsChanged, running, taskHandle, coef, zst, h,
                  codec, codecOut, cpc, pending, ret, calls, nworkers, blocks, nlms, rs, bq, nlf, mix >>

\* step 10: RMS and peak of L and R into _levels under the mutex; then
\* steps 11 and 12, up to the call of i2s_write
WMetCs(w) ==
  /\ wk[w].pc = "met_cs"
  /\ LET n == wk[w].samplesRead IN
     /\ levels' = [levels EXCEPT
          !.rmsLeft = RmsOf(wk[w].floatL, n),
          !.rmsRight = RmsOf(wk[w].floatR, n),
          !.peakLeft = PeakHold(PeakAbs(wk[w].floatL, n), @),
          !.peakRight = PeakHold(PeakAbs(wk[w].floatR, n), @)]
     /\ Upd(w, [wk[w] EXCEPT !.pc = "write",
          !.outBuf = OutBlock(wk[w].floatL, wk[w].floatR, @, n,
                              wk[w].localParams.outputMute)])
  /\ mutex' = Free
  /\ hist' = [hist EXCEPT !.levelsOf.lr = wk[w].blk]
  /\ UNCHANGED << params, paramsChanged, running, taskHandle, coef, zst, h,
                  codec, codecOut, cpc, pending, ret, calls, nworkers, blocks, nlms, rs, bq, nlf, mix >>


\* variant: after the write the worker reads the next block without going
\* through the top of the loop
WWrite_readsOn(w) ==
  /\ wk[w].pc = "write"
  /\ codecOut' = [L |-> [i \in 1..wk[w].samplesRead |-> wk[w].outBuf.L[i]],
                  R |-> [i \in 1..wk[w].samplesRead |-> wk[w].outBuf.R[i]]]
  /\ Upd(w, [wk[w] EXCEPT !.pc = "read"])
  /\ hist' = [hist EXCEPT !.ioAfterClear = CountWrite(@, w, running)]
  /\ UNCHANGED << params, levels, paramsChanged, running, taskHandle, mutex,
                  coef, zst, h, codec, cpc, pending, ret, calls, nworkers, blocks, nlms, rs, bq, nlf, mix >>

\* step 13: i2s_write returns; the codec has the first samplesRead frames
\* of outBuf
WWrite(w) ==
  /\ wk[w].pc = "write"
  /\ codecOut' = [L |-> [i \in 1..wk[w].samplesRead |-> wk[w].outBuf.L[i]],
                  R |-> [i \in 1..wk[w].samplesRead |-> wk[w].outBuf.R[i]]]
  /\ Upd(w, [wk[w] EXCEPT !.pc = "top"])
  /\ hist' = [hist EXCEPT !.ioAfterClear = CountWrite(@, w, running)]
  /\ UNCHANGED << params, levels, paramsChanged, running, taskHandle, mutex,
                  coef, zst, h, codec, cpc, pending, ret, calls, nworkers, blocks, nlms, rs, bq, nlf, mix >>

\* after the loop: free the buffers, return (vTaskDelete)
WExit(w) ==
  /\ wk[w].pc = "exit"
  /\ Upd(w, [wk[w] EXCEPT !.pc = "done"])
  /\ UNCHANGED << params, levels, paramsChanged, running, taskHandle, mutex,
                  coef, zst, h, codec, codecOut, cpc, pending, ret, calls,
                  nworkers, hist, blocks, nlms, rs, bq, nlf, mix >>

Worker(w, env) ==
  \/ WEntry(w) \/ WTopLock(w) \/ WTopCs(w) \/ WApply(w) \/ WRecalc(w)
  \/ WRead(w, env) \/ WLock(w) \/ WHpmCs(w) \/ WVe(w) \/ WNlms(w, env)
  \/ WAecPush(w) \/ WVadCs(w) \/ WAecProc(w) \/ WAecBlend(w, env)
  \/ WNs(w) \/ WNsCall(w, env) \/ WAgc(w) \/ WAgcCall(w, env) \/ WGain(w)
  \/ WMetCs(w) \/ WWrite(w) \/ WExit(w)

Lifecycle ==
  \/ StartNoop \/ StartBody \/ StopCs \/ StopWait \/ StopDestroy \/ StopMute

C0(op) == Call(op, FALSE, 0, DefaultParams)
CB(op, b) == Call(op, b, 0, DefaultParams)
CX(op, x) == Call(op, FALSE, x, DefaultParams)
CBX(op, b, x) == Call(op, b, x, DefaultParams)
CP(p) == Call("setParams", FALSE, 0, p)

(***************************************************************************)
(* Specification Spec: lifecycle and parameter exchange.  The caller       *)
(* issues up to MaxCalls calls from EngineCalls while the workers run; the *)
(* codec delivers silence.                                                 *)
(***************************************************************************)
EngineCalls ==
  { C0("start"), C0("stop"), C0("isRunning"), CX("setEqMid", 600),
    CB("setNsEnabled", TRUE), CB("setAgcEnabled", TRUE),
    CB("setVeEnabled", TRUE), CX("setVeMode", 1) }

Next ==
  \/ \E c \in EngineCalls : CallLock(c, MaxCalls)
  \/ SetBody
  \/ GetBody
  \/ Lifecycle
  \/ \E w \in Workers : Worker(w, SilentEnv)

Spec == Init /\ [][Next]_vars

(***************************************************************************)
(* Specification FairSpec: Spec with the scheduling the platform gives.    *)
(* The worker is a FreeRTOS task of priority 10 pinned to core 1 and the   *)
(* caller a running thread: a step that stays possible is eventually       *)
(* taken.  A codec read that stays pending eventually returns.             *)
(***************************************************************************)
FairSpec ==
  /\ Spec
  /\ WF_vars(SetBody \/ GetBody \/ Lifecycle)
  /\ \A w \in Workers : WF_vars(Worker(w, SilentEnv))

(***************************************************************************)
(* Specification AudioSpec: the block pipeline on non-silent input.  The   *)
(* codec delivers up to MaxBlocks blocks of samples from {0, LOUD}.        *)
(***************************************************************************)
AudioProfiles ==
  { [DefaultParams EXCEPT !.nsEnabled = TRUE, !.agcEnabled = TRUE],
    [DefaultParams EXCEPT !.veEnabled = TRUE],
    [DefaultParams EXCEPT !.veEnabled = TRUE, !.veMode = 1],
    [DefaultParams EXCEPT !.outputMute = FALSE, !.outputGain = 400],
    [DefaultParams EXCEPT !.outputMute = FALSE, !.hpfEnabled = FALSE] }

AudioCalls ==
  { C0("start"), C0("stop"), C0("getLevels") } \cup { CP(p) : p \in AudioProfiles }

NextAudio ==
  \/ \E c \in AudioCalls : CallLock(c, MaxAudioCalls)
  \/ SetBody
  \/ GetBody
  \/ Lifecycle
  \/ \E w \in Workers : Worker(w, LoudEnv)

AudioSpec == Init /\ [][NextAudio]_vars


(***************************************************************************)
(* Specification VeSpec: voice exclusion in NLMS mode.  The caller issues  *)
(* up to MaxVeCalls calls from VeCalls (no stop(), so there is one worker; *)
(* noise suppression, AGC and AEC mode stay off); the codec delivers       *)
(* silence and the headphone probe answers either way.                     *)
(***************************************************************************)
VeCalls ==
  { C0("start"), CB("setVeEnabled", TRUE), CX("setVeFilterLength", 128),
    CX("setVeStepSize", 50) }

VeWorker(w) ==
  \/ WEntry(w) \/ WTopLock(w) \/ WTopCs(w) \/ WApply(w) \/ WRecalc(w)
  \/ WRead(w, SilentEnv) \/ WLock(w) \/ WHpmCs(w) \/ WVe(w)
  \/ WNlms(w, SilentEnv) \/ WNs(w) \/ WAgc(w) \/ WGain(w) \/ WMetCs(w)
  \/ WWrite(w)

NextVe ==
  \/ \E c \in VeCalls : CallLock(c, MaxVeCalls)
  \/ SetBody
  \/ StartNoop
  \/ StartBody
  \/ \E w \in Workers : VeWorker(w)

VeSpec == Init /\ [][NextVe]_vars


(***************************************************************************)
(* Specification MeterSpec: metering of a non-silent input.  The caller    *)
(* issues up to MaxMeterCalls calls from MeterCalls (no stop(), so there   *)
(* is one worker; the helpers stay off); every frame the codec delivers    *)
(* has the sample LOUD on L, R and HP.                                     *)
(***************************************************************************)
ToneEnv == [frames |-> Frames({LOUD}), any |-> {-FS - LOUD},
            counted |-> TRUE]

MeterCalls ==
  { C0("start"), CX("setOutputGain", 0), CX("setOutputGain", 400),
    CB("setMute", FALSE), CBX("setHpf", FALSE, 150) }

MeterWorker(w) ==
  \/ WEntry(w) \/ WTopLock(w) \/ WTopCs(w) \/ WApply(w) \/ WRecalc(w)
  \/ WRead(w, ToneEnv) \/ WLock(w) \/ WHpmCs(w) \/ WVe(w) \/ WNs(w)
  \/ WAgc(w) \/ WGain(w) \/ WMetCs(w) \/ WWrite(w)

NextMeter ==
  \/ \E c \in MeterCalls : CallLock(c, MaxMeterCalls)
  \/ SetBody
  \/ StartNoop
  \/ StartBody
  \/ \E w \in Workers : MeterWorker(w)

MeterSpec == Init /\ [][NextMeter]_vars


(***************************************************************************)
(* Specification MixSpec: the per-sample NLMS removal of step 7 on samples *)
(* from MixSamples, estimates from MixEstimates and blend and maxAtt from  *)
(* MixFactors (hundredths; the setters accept 0..100 for both).            *)
(***************************************************************************)
MixSamples == {-FS, -MixSmall, -1, 0, 1, MixSmall, FS}
MixEstimates == {-2 * FS, -MixSmall, -1, 0, 1, MixSmall, 2 * FS}
MixFactors == {0, 1, 50, 60, 100}

MixCall ==
  /\ mix.calls < MaxMixCalls
  /\ \E x \in MixSamples, est \in MixEstimates,
        blend \in MixFactors, maxAtt \in MixFactors :
       mix' = [x |-> x, est |-> est, blend |-> blend, maxAtt |-> maxAtt,
               out |-> VeNlmsOut(x, est, blend, maxAtt),
               calls |-> mix.calls + 1]
  /\ UNCHANGED << params, levels, paramsChanged, running, taskHandle, mutex,
                  coef, zst, h, codec, codecOut, cpc, pending, ret, calls,
                  nworkers, wk, blocks, hist, nlms, rs, bq, nlf >>

NextMix == MixCall

MixSpec == Init /\ [][NextMix]_vars


(***************************************************************************)
(* Specification RestartSpec: stop() and start() again.  The caller issues *)
(* up to MaxRestartCalls calls from RestartCalls while up to MaxWorkers    *)
(* workers run; the helpers stay off and the codec delivers silence.       *)
(***************************************************************************)
RestartCalls == { C0("start"), C0("stop"), CB("setMute", FALSE) }

RestartWorker(w) ==
  \/ WEntry(w) \/ WTopLock(w) \/ WTopCs(w) \/ WApply(w) \/ WRecalc(w)
  \/ WRead(w, SilentEnv) \/ WLock(w) \/ WHpmCs(w) \/ WVe(w) \/ WNs(w)
  \/ WAgc(w) \/ WGain(w) \/ WMetCs(w) \/ WWrite(w) \/ WExit(w)

NextRestart ==
  \/ \E c \in RestartCalls : CallLock(c, MaxRestartCalls)
  \/ SetBody
  \/ Lifecycle
  \/ \E w \in Workers : RestartWorker(w)

RestartSpec == Init /\ [][NextRestart]_vars

(***************************************************************************)
(* Specification NlmsSpec: one NlmsFilter object under up to MaxNlmsCalls  *)
(* calls of init(), reset() and process() with reference, primary and step *)
(* values from NlmsRefs, NlmsPrimaries and NlmsSteps.                      *)
(***************************************************************************)
NlmsCounted(f, op) == [f EXCEPT !.calls = @ + 1, !.op = op]

NlmsInitCall ==
  /\ nlms.calls < MaxNlmsCalls
  /\ \E len \in NlmsLens : nlms' = NlmsCounted(NlmsInit(nlms, len), "init")
  /\ UNCHANGED << params, levels, paramsChanged, running, taskHandle, mutex,
                  coef, zst, h, codec, codecOut, cpc, pending, ret, calls,
                  nworkers, wk, blocks, hist, rs, bq, nlf, mix >>

NlmsResetCall ==
  /\ nlms.calls < MaxNlmsCalls
  /\ nlms' = NlmsCounted(NlmsReset(nlms), "reset")
  /\ UNCHANGED << params, levels, paramsChanged, running, taskHandle, mutex,
                  coef, zst, h, codec, codecOut, cpc, pending, ret, calls,
                  nworkers, wk, blocks, hist, rs, bq, nlf, mix >>

NlmsProcessCall ==
  /\ nlms.calls < MaxNlmsCalls
  /\ \E ref \in NlmsRefs, primary \in NlmsPrimaries, stepSize \in NlmsSteps :
       nlms' = NlmsCounted(NlmsProcess(nlms, ref, primary, stepSize), "process")
  /\ UNCHANGED << params, levels, paramsChanged, running, taskHandle, mutex,
                  coef, zst, h, codec, codecOut, cpc, pending, ret, calls,
                  nworkers, wk, blocks, hist, rs, bq, nlf, mix >>

NextNlms == NlmsInitCall \/ NlmsResetCall \/ NlmsProcessCall

NlmsSpec == Init /\ [][NextNlms]_vars

(***************************************************************************)
(* Specification ResSpec: one Resampler object under up to MaxResCalls     *)
(* calls of init(), downsample3() (ResOut output frames from 3 * ResOut    *)
(* input samples) and upsample3() (ResOut input frames), with the blocks   *)
(* of ResBlocks: silence, a constant ResV, and a block ending in ResV.     *)
(***************************************************************************)
ResOut == 4
ResV == 10000
MaxResCalls == 3
ResBlocks(n) ==
  { [i \in 1..n |-> 0], [i \in 1..n |-> ResV],
    [i \in 1..n |-> IF i = n THEN ResV ELSE 0] }

ResInitCall ==
  /\ rs.calls < MaxResCalls
  /\ rs.calls > 0
  /\ rs' = [FreshResampler EXCEPT !.calls = rs.calls + 1]
  /\ UNCHANGED << params, levels, paramsChanged, running, taskHandle, mutex,
                  coef, zst, h, codec, codecOut, cpc, pending, ret, calls,
                  nworkers, wk, blocks, hist, nlms, bq, nlf, mix >>

ResDownCall ==
  /\ rs.calls < MaxResCalls
  /\ \E in \in ResBlocks(3 * ResOut) :
       LET d == downsample3(rs.history, in, ResOut)
       IN  rs' = [rs EXCEPT !.history = d.history,
                            !.fedDown = @ \o in,
                            !.outDown = @ \o d.out,
                            !.calls = @ + 1]
  /\ UNCHANGED << params, levels, paramsChanged, running, taskHandle, mutex,
                  coef, zst, h, codec, codecOut, cpc, pending, ret, calls,
                  nworkers, wk, blocks, hist, nlms, bq, nlf, mix >>

ResUpCall ==
  /\ rs.calls < MaxResCalls
  /\ \E in \in ResBlocks(ResOut) :
       LET u == upsample3(rs.upHistory, in, ResOut)
       IN  rs' = [rs EXCEPT !.upHistory = u.history,
                            !.fedUp = @ \o in,
                            !.outUp = @ \o u.out,
                            !.calls = @ + 1]
  /\ UNCHANGED << params, levels, paramsChanged, running, taskHandle, mutex,
                  coef, zst, h, codec, codecOut, cpc, pending, ret, calls,
                  nworkers, wk, blocks, hist, nlms, bq, nlf, mix >>

NextRes == ResInitCall \/ ResDownCall \/ ResUpCall

ResSpec == Init /\ [][NextRes]_vars

(***************************************************************************)
(* Specification BiquadSpec: the mid-band peaking biquad under up to       *)
(* MaxBqCalls calls of calcPeakEqCoeffs (gain from BqGains), process       *)
(* (sample 0 or BqV) and reset.                                            *)
(***************************************************************************)
BqV == 1000
MaxBqCalls == 5

BqCalcCall ==
  /\ bq.calls < MaxBqCalls
  /\ \E g \in BqGains :
       bq' = [bq EXCEPT !.c = CoeffValues(calcPeakEqCoeffs(EQ_MID_HZ, g)),
                        !.op = "calc", !.calls = @ + 1]
  /\ UNCHANGED << params, levels, paramsChanged, running, taskHandle, mutex,
                  coef, zst, h, codec, codecOut, cpc, pending, ret, calls,
                  nworkers, wk, blocks, hist, nlms, rs, nlf, mix >>

BqProcessCall ==
  /\ bq.calls < MaxBqCalls
  /\ \E x \in {0, BqV} :
       bq' = [BiquadProcess(bq, x) EXCEPT !.calls = @ + 1]
  /\ UNCHANGED << params, levels, paramsChanged, running, taskHandle, mutex,
                  coef, zst, h, codec, codecOut, cpc, pending, ret, calls,
                  nworkers, wk, blocks, hist, nlms, rs, nlf, mix >>

BqResetCall ==
  /\ bq.calls < MaxBqCalls
  /\ bq' = [BiquadReset(bq) EXCEPT !.calls = @ + 1]
  /\ UNCHANGED << params, levels, paramsChanged, running, taskHandle, mutex,
                  coef, zst, h, codec, codecOut, cpc, pending, ret, calls,
                  nworkers, wk, blocks, hist, nlms, rs, nlf, mix >>

NextBiquad == BqCalcCall \/ BqProcessCall \/ BqResetCall

BiquadSpec == Init /\ [][NextBiquad]_vars

(***************************************************************************)
(* Specification SetterSpec: the parameter API alone.  The caller issues   *)
(* up to MaxSetterCalls calls, with arguments below, at and above the      *)
(* bounds the data model declares; no worker is started.                   *)
(***************************************************************************)
\* The ranges the data model declares for the numeric parameters, by the
\* setter that stores each (hundredths for gains and ratios, see the header)
R(op, field, lo, hi) == [op |-> op, field |-> field, lo |-> lo, hi |-> hi]
DeclaredRanges ==
  { R("setMicGain", "micGain", 0, 240),
    R("setHpf", "hpfFrequency", 20, 2000),
    R("setLpf", "lpfFrequency", 500, 20000),
    R("setEqLow", "eqLowGain", -1200, 1200),
    R("setEqMid", "eqMidGain", -1200, 1200),
    R("setEqHigh", "eqHighGain", -1200, 1200),
    R("setNsMode", "nsMode", 0, 2),
    R("setAgcMode", "agcMode", 0, 3),
    R("setAgcCompressionGain", "agcCompressionGainDb", 0, 90),
    R("setAgcTargetLevel", "agcTargetLevelDbfs", -31, 0),
    R("setVeBlend", "veBlend", 0, 100),
    R("setVeStepSize", "veStepSize", 1, 100),
    R("setVeFilterLength", "veFilterLength", 16, 512),
    R("setVeMaxAttenuation", "veMaxAttenuation", 0, 100),
    R("setVeRefGain", "veRefGain", 10, 500),
    R("setVeRefHpf", "veRefHpf", 20, 500),
    R("setVeRefLpf", "veRefLpf", 1000, 8000),
    R("setVeMode", "veMode", 0, 1),
    R("setVeAecFilterLen", "veAecFilterLen", 1, 6),
    R("setVeVadMode", "veVadMode", 0, 4),
    R("setOutputGain", "outputGain", 0, 600),
    R("setOutputVolume", "outputVolume", 0, 100) }
RangedOps == { r.op : r \in DeclaredRanges }
RangedFields == { r.field : r \in DeclaredRanges }
RangeOfOp(op) == CHOOSE r \in DeclaredRanges : r.op = op
RangeOfField(f) == CHOOSE r \in DeclaredRanges : r.field = f

\* a parameter record with every ranged field clamped to its declared range
ClampParams(p) ==
  [f \in DOMAIN p |->
     IF f \in RangedFields
     THEN Clamp(p[f], RangeOfField(f).lo, RangeOfField(f).hi)
     ELSE p[f]]

BoolOps == { "setNsEnabled", "setAgcEnabled", "setAgcLimiterEnabled",
             "setVeEnabled", "setVeVadEnabled", "setMute" }

SetterProfiles ==
  { DefaultParams,
    [DefaultParams EXCEPT !.outputGain = 1000],
    [DefaultParams EXCEPT !.hpfFrequency = 5, !.veAecFilterLen = 9] }

SetterCalls ==
  { CBX(r.op, TRUE, x) : r \in DeclaredRanges, x \in {-2000, 0, 300000} }
  \cup { CBX(r.op, TRUE, r.hi) : r \in DeclaredRanges }
  \cup { CB(op, b) : op \in BoolOps, b \in BOOLEAN }
  \cup { CX("setVeAecMode", x) : x \in {0, 7} }
  \cup { CP(p) : p \in SetterProfiles }
  \cup { C0("getParams") }

NextSetters ==
  \/ \E c \in SetterCalls : CallLock(c, MaxSetterCalls)
  \/ SetBody
  \/ GetBody

SetterSpec == Init /\ [][NextSetters]_vars

(***************************************************************************)
(* Properties.                                                             *)
(***************************************************************************)
\* C1: When the worker's snapshot has outputMute set, every sample of the
\* block handed to the codec write (L and R of each of the samplesRead
\* frames) is 0, whatever the pipeline computed for the block.
C1_MutedBlockIsZero ==
  \A w \in Workers :
    (wk[w].pc = "write" /\ wk[w].localParams.outputMute) =>
      \A i \in 1..wk[w].samplesRead :
        wk[w].outBuf.L[i] = 0 /\ wk[w].outBuf.R[i] = 0

\* a muted block is about to be written whose pipeline result is not silent
C1_Witness ==
  \E w \in Workers :
    /\ wk[w].pc = "write"
    /\ wk[w].localParams.outputMute
    /\ wk[w].samplesRead >= 1
    /\ wk[w].floatL[1] # 0
    /\ wk[w].floatR[1] # 0

\* C2: As long as no setMute(false) and no setParams with outputMute false
\* has been called, every block the codec has been given is all zeros and
\* set_mute(false) has never been called on the codec.
C2_DefaultMuted ==
  ~hist.unmuteAsked =>
    /\ \A i \in DOMAIN codecOut.L : codecOut.L[i] = 0
    /\ \A i \in DOMAIN codecOut.R : codecOut.R[i] = 0
    /\ ~codec.unmuted

\* nobody asked to un-mute, and a worker has written a block whose pipeline
\* result was not silent
C2_Witness ==
  /\ ~hist.unmuteAsked
  /\ Len(codecOut.L) >= 1
  /\ \E w \in Workers :
       /\ wk[w].pc = "top"
       /\ wk[w].samplesRead >= 1
       /\ wk[w].floatL[1] # 0

\* C3: Whenever a per-field setter of a parameter with a declared range
\* returns, the stored field is the argument clamped to the declared range.
C3_SetterClampsToDeclared ==
  [][(cpc = "set_cs" /\ cpc' = "idle" /\ pending.op \in RangedOps) =>
       LET r == RangeOfOp(pending.op)
       IN  params'[r.field] = Clamp(pending.x, r.lo, r.hi)]_vars

\* C4: A getParams() that follows a setParams(p), with no setter call
\* between the two, returns p with every ranged field clamped to its
\* declared range.
C4_SetParamsRoundTrip ==
  [][(cpc = "get_cs" /\ cpc' = "idle" /\ pending.op = "getParams"
        /\ hist.lastSetParams.valid) =>
       ret'.params = ClampParams(hist.lastSetParams.p)]_vars

\* C5: Whenever a worker is about to filter a block, every biquad's
\* coefficients are those computed from that worker's local snapshot (the
\* record that supplies the block's enable flags); L and R of a pair are
\* then identical.
C5_CoeffsFromSnapshot ==
  \A w \in Workers :
    wk[w].pc = "read" =>
      \A b \in BqNames : coef[b] = CoeffFor(b, wk[w].localParams)

\* The positions at which the next step of a thread reads or writes
\* _params, _levels or _paramsChanged.
WorkerAccessPcs == {"top_cs", "recalc", "hpm_cs", "vad_cs", "met_cs"}
CallerAccessPcs == {"set_cs", "get_cs", "start_cs"}

\* C6: Every read and every write of the parameter record, the levels
\* record and the dirty flag is made by a thread that holds the mutex.
C6_SharedAccessUnderMutex ==
  /\ cpc \in CallerAccessPcs => mutex = ByCaller
  /\ \A w \in Workers : wk[w].pc \in WorkerAccessPcs => mutex = ByWorker(w)

\* C7: No worker is inside a processing step that uses a helper handle or
\* an NLMS filter while that handle or filter is destroyed.
C7_NoUseOfDestroyedHandle ==
  \A w \in Workers :
    /\ wk[w].pc = "ns_call" => (h["nsL"] = "live" /\ h["nsR"] = "live")
    /\ wk[w].pc = "agc_call" => (h["agcL"] = "live" /\ h["agcR"] = "live")
    /\ wk[w].pc = "nlms" => (h["nlmsL"] = "live" /\ h["nlmsR"] = "live")
    /\ wk[w].pc = "vad" => h["vad"] = "live"
    /\ wk[w].pc = "aec_proc" => (h["aecL"] = "live" /\ h["aecR"] = "live")

\* C8: (a) a returning setter leaves the dirty flag set; (b) the dirty flag
\* is cleared only by a step that copies the record into a worker's local
\* snapshot; (c) while the engine keeps running, a set dirty flag is
\* eventually cleared, that is, the change is eventually copied.
C8_NoUpdateLost ==
  /\ [][(cpc = "set_cs" /\ cpc' = "idle") => paramsChanged']_vars
  /\ [][(paramsChanged /\ ~paramsChanged') =>
          \E w \in Workers : /\ wk'[w].localParams = params
                             /\ wk'[w].localParamsChanged
                             /\ wk[w].pc = "top_cs"]_vars
  /\ (paramsChanged /\ running) ~> (~paramsChanged \/ ~running)

\* a running worker has copied the record a setter left: eqMidGain 6 dB
C8_Witness ==
  /\ running
  /\ ~paramsChanged
  /\ params.eqMidGain = 600
  /\ \E w \in Workers : wk[w].localParams.eqMidGain = 600

\* The positions of a worker between the return of i2s_read and the return
\* of i2s_write.
InBlockPcs == {"hpm", "hpm_cs", "ve", "nlms", "aec_push", "vad", "vad_cs",
               "aec_proc", "aec_blend", "ns", "ns_call", "agc", "agc_call",
               "gain", "met", "met_cs", "write"}

\* C9: (1) no step taken while a worker is between its codec read and its
\* codec write changes that worker's snapshot or the coefficients; (2) what
\* a worker computes after its snapshot step comes from the snapshot, so a
\* setter that returns after the snapshot step shows only after the next
\* iteration's snapshot step.
C9_ChangesAtBlockBoundary ==
  [][\A w \in Workers :
       /\ (wk[w].pc \in InBlockPcs /\ wk'[w].pc \in InBlockPcs) =>
            (coef' = coef /\ wk'[w].localParams = wk[w].localParams)
       /\ (wk[w].pc = "recalc" /\ wk'[w] # wk[w]) =>
            \A b \in BqNames :
              coef'[b] \in {coef[b], CoeffFor(b, wk[w].localParams)}]_vars

IoPcs == {"read", "write", "ns_call", "agc_call", "vad", "aec_proc"}

\* C11: A worker that is inside a codec read, a codec write or an external
\* helper call does not hold the engine mutex.
C11_NoMutexAcrossIo ==
  \A w \in Workers : wk[w].pc \in IoPcs => mutex # ByWorker(w)

\* a setter is inside its guarded section while a worker is blocked in
\* i2s_read
C11_Witness ==
  /\ cpc = "set_cs"
  /\ mutex = ByCaller
  /\ \E w \in Workers : wk[w].pc = "read"

\* C12: (a) the step in which a worker finds no codec handle clears the
\* running flag and ends the task; (b) a worker without codec handle is
\* never inside the loop, so it reads and writes nothing; (c) an
\* isRunning() that returns while the worker created last is one that found
\* no codec handle returns false.
C12_CodecHandleFailure ==
  /\ [][\A w \in Workers :
          (wk[w].pc = "entry" /\ wk'[w].codec = "null") =>
            (~running' /\ wk'[w].pc = "done" /\ codecOut' = codecOut)]_vars
  /\ [](\A w \in Workers : wk[w].codec = "null" => wk[w].pc = "done")
  /\ [][(cpc = "get_cs" /\ cpc' = "idle" /\ pending.op = "isRunning"
          /\ nworkers >= 1 /\ wk[nworkers].codec = "null") =>
            ~ret'.running]_vars

\* the only worker has found no codec handle and has returned, nobody
\* called stop(), and an isRunning() is in its guarded section
C12_Witness ==
  /\ nworkers = 1
  /\ wk[1].codec = "null"
  /\ wk[1].pc = "done"
  /\ ~hist.stopCalled
  /\ cpc = "get_cs"
  /\ pending.op = "isRunning"
  /\ ~running

\* C13: a codec read that returns no full input frame (samplesRead <= 0)
\* skips the iteration: the step takes the worker back to the top of the
\* loop, where the next thing it can do towards the codec is read again,
\* and leaves every filter state, every handle, the ring positions and
\* buffers of the worker, the Levels record and the codec output untouched.
C13_ShortReadSkipsIteration ==
  [][\A w \in Workers :
       (wk[w].pc = "read" /\ wk'[w].pc # "read" /\ wk'[w].samplesRead <= 0) =>
         /\ wk'[w] = [wk[w] EXCEPT !.pc = "top",
                                   !.samplesRead = wk'[w].samplesRead]
         /\ zst' = zst
         /\ coef' = coef
         /\ h' = h
         /\ levels' = levels
         /\ codecOut' = codecOut]_vars

\* a worker that has processed a block before (its filters carry history and
\* its headphone poll counter has advanced) is back at the top of the loop
\* after a short read
C13_Witness ==
  \E w \in Workers :
    /\ wk[w].pc = "top"
    /\ wk[w].samplesRead = 0
    /\ blocks >= 1
    /\ levels # DefaultLevels
    /\ \E b \in BqNames : zst[b] = "hist"

\* the positions of a worker inside while (true) { ... }
LoopPcs == {"top", "top_cs", "apply", "recalc", "read"} \cup InBlockPcs

\* C14: a worker inside its loop leaves it only by the step of the
\* top-of-iteration check, taken under the mutex with the running flag
\* observed false; every other step of the loop (a failed handle creation,
\* a short read, the headphone poll, the clamp of an out-of-range sample)
\* stays inside the loop.
C14_LoopExitOnlyAtTop ==
  [][\A w \in Workers :
       (wk[w].pc \in LoopPcs /\ wk'[w].pc \notin LoopPcs) =>
         /\ wk[w].pc = "top_cs"
         /\ ~running
         /\ mutex = ByWorker(w)
         /\ wk'[w].pc = "exit"]_vars

\* a worker whose NS handle creation failed kept processing and has left the
\* loop at the top check after stop() cleared the flag
C14_Witness ==
  \E w \in Workers :
    /\ wk[w].pc = "exit"
    /\ wk[w].localParams.nsEnabled
    /\ wk[w].prevNsEnabled
    /\ h["nsL"] = "null"
    /\ cpc = "stop_wait"

\* C15: (a) while the running flag stays false (no start() in between), a
\* worker that is inside its loop eventually has left processLoop, its
\* buffers released; (b) no worker completes more than one codec read and
\* more than one codec write while the flag is false.
C15_StopEndsWorker ==
  /\ [](\A w \in Workers : /\ hist.ioAfterClear[w].reads <= 1
                           /\ hist.ioAfterClear[w].writes <= 1)
  /\ \A w \in Workers :
       (~running /\ wk[w].pc \in LoopPcs) ~> (running \/ wk[w].pc = "done")

\* stop() cleared the flag while a worker was past the top check: that
\* worker finished its block with one read and one write and has returned
C15_Witness ==
  \E w \in Workers :
    /\ hist.stopCalled
    /\ ~running
    /\ wk[w].pc = "done"
    /\ hist.ioAfterClear[w] = [reads |-> 1, writes |-> 1]

\* C16: (a) the left and the right handle of the NS pair, of the AGC pair
\* and of the AEC pair are both null or both live in every state, whatever
\* creations fail; (b) with a null pair the stage is skipped: the worker
\* does not enter ns_process / esp_agc_process / the AEC path; (c) the step
\* that manages the handles, failed creations included, keeps the worker in
\* its loop.
C16_PairsNullTogether ==
  /\ [](/\ h["nsL"] = h["nsR"]
        /\ h["agcL"] = h["agcR"]
        /\ h["aecL"] = h["aecR"])
  /\ [][\A w \in Workers :
          /\ (wk[w].pc = "ns" /\ h["nsL"] = "null") => wk'[w].pc # "ns_call"
          /\ (wk[w].pc = "agc" /\ h["agcL"] = "null") => wk'[w].pc # "agc_call"
          /\ (wk[w].pc = "ve" /\ h["aecL"] = "null") => wk'[w].pc # "aec_push"
          /\ wk[w].pc = "apply" => wk'[w].pc \in LoopPcs]_vars

\* NS is wanted, the creation in the worker's handle management failed, and
\* the worker has gone past the NS stage of a block without calling it
C16_Witness ==
  \E w \in Workers :
    /\ wk[w].localParams.nsEnabled
    /\ wk[w].prevNsEnabled
    /\ ~wk[w].localParamsChanged
    /\ h["nsL"] = "null" /\ h["nsR"] = "null"
    /\ wk[w].pc = "agc"
    /\ running

\* C17: (a) every sample the codec has been given lies in [-32767, 32767];
\* (b) the step that converts a block (step 11) turns each post-gain sample
\* x of the block into 32767 if x > 1, -32767 if x < -1 and the truncation
\* of x * 32767 otherwise, which is what goes to the codec unless the output
\* is muted (a muted block is zero).
C17_OutputSaturated ==
  /\ [](\A i \in DOMAIN codecOut.L :
          /\ codecOut.L[i] \in -I16MAX..I16MAX
          /\ codecOut.R[i] \in -I16MAX..I16MAX)
  /\ [][\A w \in Workers :
          (wk[w].pc = "met_cs" /\ wk'[w].pc = "write") =>
            LET Sat(x) == IF x > FS THEN I16MAX
                          ELSE IF x < -FS THEN -I16MAX
                          ELSE TruncDiv(x * I16MAX, FS)
                mute == wk[w].localParams.outputMute
            IN  \A i \in 1..wk[w].samplesRead :
                  /\ wk'[w].outBuf.L[i] = IF mute THEN 0 ELSE Sat(wk[w].floatL[i])
                  /\ wk'[w].outBuf.R[i] = IF mute THEN 0 ELSE Sat(wk[w].floatR[i])]_vars

\* an unmuted block whose post-gain left sample is below -1 has gone to the
\* codec as -32767
C17_Witness ==
  \E w \in Workers :
    /\ wk[w].pc = "top"
    /\ wk[w].samplesRead = BlockLen
    /\ ~wk[w].localParams.outputMute
    /\ wk[w].floatL[1] < -FS
    /\ codecOut.L = << -I16MAX >>

\* C18: when getLevels() copies the levels record, the L/R fields (rmsLeft,
\* rmsRight, peakLeft, peakRight) and the HP fields (rmsHP, peakHP) of the
\* record were published for the same block.
C18_LevelsFromOneBlock ==
  (cpc = "get_cs" /\ pending.op = "getLevels") =>
    hist.levelsOf.hp = hist.levelsOf.lr

\* C19: (a) after any sequence of init(), reset() and process() calls every
\* weight of the filter has magnitude at most 10; (b) a process() call
\* leaves each weight at 0 if its updated value exceeds 10 in magnitude and
\* at its updated value otherwise.
C19_NlmsWeightsBounded ==
  /\ [](\A i \in 1..nlms.len : Abs(nlms.weights[i]) <= NLMS_W_MAX * NQ)
  /\ [][(nlms'.len = nlms.len /\ nlms'.raw # nlms.raw) =>
          \A i \in 1..nlms.len :
            nlms'.weights[i] =
              IF nlms'.raw[i] > NLMS_W_MAX * NQ \/ nlms'.raw[i] < -NLMS_W_MAX * NQ
              THEN 0 ELSE nlms'.raw[i]]_vars

\* a process() call whose update took a weight above 10, reset to 0 in the
\* same call, while the other weight of the filter kept its updated value
C19_Witness ==
  /\ nlms.len = 2
  /\ \E i, j \in 1..2 :
       /\ Abs(nlms.raw[i]) > NLMS_W_MAX * NQ
       /\ nlms.weights[i] = 0
       /\ nlms.raw[j] # 0
       /\ nlms.weights[j] = nlms.raw[j]

\* C20: the step that publishes the L/R levels of a block sets peakLeft
\* (peakRight) to the larger of the largest absolute post-gain sample of the
\* block and 0.97 times the peak published before; the step that publishes
\* the HP levels does the same for peakHP.  With a block that does not
\* exceed the decayed value the new peak is exactly the decayed value.
C20_PeakHoldDecay ==
  [][\A w \in Workers :
       LET n == wk[w].samplesRead
           Held(blockPeak, prev) ==
             IF blockPeak > (prev * PEAK_DECAY) \div 100
             THEN blockPeak ELSE (prev * PEAK_DECAY) \div 100
       IN  /\ (wk[w].pc = "met_cs" /\ wk'[w].pc = "write") =>
                /\ levels'.peakLeft =
                     Held(PeakAbs(wk[w].floatL, n), levels.peakLeft)
                /\ levels'.peakRight =
                     Held(PeakAbs(wk[w].floatR, n), levels.peakRight)
           /\ (wk[w].pc = "hpm_cs" /\ wk'[w].pc = "ve") =>
                levels'.peakHP =
                  Held(PeakAbs(wk[w].floatHP, n), levels.peakHP)]_vars

\* a loud unfiltered block at gain 1.5 followed by two silent blocks: the
\* published left peak is the loud peak decayed twice
C20_Witness ==
  \E w \in Workers :
    /\ wk[w].pc = "write"
    /\ PeakAbs(wk[w].floatL, wk[w].samplesRead) = 0
    /\ levels.peakLeft > 0
    /\ levels.peakLeft =
         (((ApplyGain(ToFloat(LOUD), 150) * PEAK_DECAY) \div 100)
            * PEAK_DECAY) \div 100

\* C21: (a) a worker's "AEC has produced output" flag is false after the
\* step that (re-)creates the AEC handles, with both rings empty, and turns
\* true only in the step in which aec_process returns, entered with 512
\* samples in the input rings; (b) while the flag is false, no step of the
\* AEC path (push, VAD, aec_process, blend) changes the L/R samples of the
\* block.
C21_NoAecOutputBeforeFirstFrame ==
  [][\A w \in Workers :
       /\ (wk[w].pc = "apply" /\ wk'[w].prevVeAecActive
           /\ << wk'[w].prevVeAecActive, wk'[w].prevVeAecMode,
                 wk'[w].prevVeAecFilterLen >>
              # << wk[w].prevVeAecActive, wk[w].prevVeAecMode,
                   wk[w].prevVeAecFilterLen >>) =>
            /\ ~wk'[w].aecOutputReady
            /\ wk'[w].aecRingPos = 0
            /\ wk'[w].aecOutRingPos = 0
       /\ (~wk[w].aecOutputReady /\ wk'[w].aecOutputReady) =>
            /\ wk[w].pc = "aec_proc"
            /\ wk[w].aecRingPos = AEC_FRAME_16K
       /\ (wk[w].pc \in {"aec_push", "vad", "vad_cs", "aec_proc", "aec_blend"}
           /\ ~wk'[w].aecOutputReady) =>
            /\ wk'[w].floatL = wk[w].floatL
            /\ wk'[w].floatR = wk[w].floatR]_vars

\* a block with non-zero samples has gone through the AEC path and on to the
\* NS stage while the input rings hold less than a frame and the AEC has
\* not been invoked
C21_Witness ==
  \E w \in Workers :
    /\ wk[w].pc = "ns"
    /\ h["aecL"] = "live"
    /\ wk[w].localParams.veEnabled /\ wk[w].localParams.veMode = 1
    /\ wk[w].hpDetected
    /\ ~wk[w].aecOutputReady
    /\ wk[w].aecRingPos = 3 * NS_FRAME_16K
    /\ wk[w].floatL[1] # 0

\* C22: every push of a block into the AEC input rings stores all 160
\* samples of the block: the write position advances by 160, so that every
\* pushed sample is part of the frame handed to aec_process.
C22_PushKeepsEverySample ==
  [][\A w \in Workers :
       (wk[w].pc = "aec_push" /\ wk'[w].pc # "aec_push") =>
         wk'[w].aecRingPos = wk[w].aecRingPos + NS_FRAME_16K]_vars

\* C23: once the AEC has produced output, the blend step of every block
\* processed in AEC mode takes exactly 160 samples out of the output rings
\* (which, upsampled, cover all 480 samples of the block).
C23_DrainsFullChunk ==
  [][\A w \in Workers :
       (wk[w].pc = "aec_blend" /\ wk[w].aecOutputReady
        /\ wk'[w].pc # "aec_blend") =>
         wk[w].aecOutRingPos - wk'[w].aecOutRingPos = NS_FRAME_16K]_vars

\* the number of output samples of downsample3 (upsample3) at the end of a
\* signal whose filter window reaches past the last input sample
DownTail == (HALF_TAPS + 2) \div 3
UpTail == 3 * UP_HISTORY

\* C24: the output a resampler has produced block by block equals, sample
\* for sample, the output of one call on the concatenation of the blocks
\* it was given, except for the last samples, whose window reaches past the
\* end of the signal.
C24_BlocksEqualOneShot ==
  /\ LET one == downsample3(FreshResampler.history, rs.fedDown,
                            Len(rs.fedDown) \div 3).out
     IN  \A i \in 1..(Len(rs.outDown) - DownTail) : rs.outDown[i] = one[i]
  /\ LET one == upsample3(FreshResampler.upHistory, rs.fedUp,
                          Len(rs.fedUp)).out
     IN  \A k \in 1..(Len(rs.outUp) - UpTail) : rs.outUp[k] = one[k]

\* C25: when everything given to upsample3 so far is the constant ResV and
\* the filter history is filled (at least two blocks), the three output
\* samples (phases 0, 1, 2) made from the first input sample of the last
\* block equal ResV to within one percent.
C25_UnityGainAtDc ==
  (/\ Len(rs.fedUp) >= 2 * ResOut
   /\ \A i \in 1..Len(rs.fedUp) : rs.fedUp[i] = ResV) =>
    \A phase \in 0..2 :
      LET y == rs.outUp[3 * (Len(rs.fedUp) - ResOut) + phase + 1]
      IN  Abs(y - ResV) <= ResV \div 100

\* C26: a biquad that has the coefficients calcPeakEqCoeffs assigns for a
\* gain below 0.1 dB returns its input from process(), whatever it
\* processed before with other coefficients.
C26_BypassIsIdentity ==
  (bq.op = "process" /\ bq.c = CoeffValues(BYPASS)) => bq.out = bq.in

\* C27: (1) when a worker has run the handle management of a dirty
\* iteration, a handle is live only if the snapshot it applied enables its
\* feature: NS needs nsEnabled, AGC agcEnabled, AEC veEnabled with
\* veMode = 1, VAD these and veVadEnabled, NLMS veEnabled; (2) at the step
\* with which stop() returns, every handle is null.
C27_HandlesOnlyWhenEnabled ==
  [][/\ \A w \in Workers :
          (wk[w].pc = "apply" /\ wk[w].localParamsChanged
             /\ wk'[w].pc = "recalc") =>
            LET lp == wk[w].localParams IN
            /\ (h'["nsL"] = "live" \/ h'["nsR"] = "live") => lp.nsEnabled
            /\ (h'["agcL"] = "live" \/ h'["agcR"] = "live") => lp.agcEnabled
            /\ (h'["aecL"] = "live" \/ h'["aecR"] = "live") =>
                 (lp.veEnabled /\ lp.veMode = 1)
            /\ h'["vad"] = "live" =>
                 (lp.veEnabled /\ lp.veMode = 1 /\ lp.veVadEnabled)
            /\ (h'["nlmsL"] = "live" \/ h'["nlmsR"] = "live") => lp.veEnabled
     /\ (cpc \in {"stop_cs", "stop_mute"} /\ cpc' = "idle") =>
          \A n \in HandleNames : h'[n] = "null"]_vars

C29_NlmsKeptUnlessLengthOrSwitchOn ==
  [][/\ (nlf' # nlf /\ nlf'.st = "fresh") =>
          \E w \in Workers :
            /\ wk[w].pc = "apply" /\ wk[w].localParamsChanged
            /\ wk'[w] # wk[w]
            /\ \/ wk[w].localParams.veFilterLength # wk[w].prevVeFilterLength
               \/ (wk[w].localParams.veEnabled /\ ~wk[w].prevVeEnabled)
            /\ nlf' = [len |-> wk[w].localParams.veFilterLength,
                       st |-> "fresh"]
     /\ \A w \in Workers :
          (/\ wk[w].pc = "apply" /\ wk[w].localParamsChanged
           /\ wk'[w] # wk[w]
           /\ wk[w].localParams.veEnabled = wk[w].prevVeEnabled
           /\ wk[w].localParams.veFilterLength = wk[w].prevVeFilterLength) =>
            nlf' = nlf]_vars

\* a worker has applied a snapshot with another step size while the filters
\* had been used, and they are still the used filters
C29_Witness ==
  \E w \in Workers :
    /\ wk[w].pc = "recalc"
    /\ wk[w].localParams.veStepSize # DefaultParams.veStepSize
    /\ wk[w].prevVeEnabled
    /\ nlf.st = "used"

\* C30: a worker's cached headphone state changes only in the step 7 of
\* every HP_DETECT_INTERVAL-th processed block (the counter counts every
\* block and the probe runs when it wraps); when the cached state after the
\* poll is "no headphone" the block goes straight on to noise suppression
\* with its L/R samples, the NLMS filters, the AEC ring positions and the
\* AEC output flag as they were; and a worker is inside a voice-exclusion
\* step only with the cached state "headphone".
C30_VeSkippedWithoutHeadphone ==
  /\ [](\A w \in Workers :
          /\ wk[w].hpDetectCounter \in 0..(HP_DETECT_INTERVAL - 1)
          /\ wk[w].pc \in {"nlms", "aec_push", "vad", "vad_cs", "aec_proc",
                           "aec_blend"} => wk[w].hpDetected)
  /\ [][\A w \in Workers :
          /\ wk'[w].hpDetected # wk[w].hpDetected =>
               (wk[w].pc = "ve"
                  /\ wk[w].hpDetectCounter = HP_DETECT_INTERVAL - 1)
          /\ (wk[w].pc = "ve" /\ wk'[w] # wk[w]) =>
               /\ wk'[w].hpDetectCounter =
                    (wk[w].hpDetectCounter + 1) % HP_DETECT_INTERVAL
               /\ ~wk'[w].hpDetected =>
                    /\ wk'[w].pc = "ns"
                    /\ wk'[w].floatL = wk[w].floatL
                    /\ wk'[w].floatR = wk[w].floatR
                    /\ wk'[w].aecRingPos = wk[w].aecRingPos
                    /\ wk'[w].aecOutRingPos = wk[w].aecOutRingPos
                    /\ wk'[w].aecOutputReady = wk[w].aecOutputReady
                    /\ nlf' = nlf]_vars

\* voice exclusion has run on earlier blocks (the filters are used), the
\* probe then reported no headphone, and the block at hand has skipped it
C30_Witness ==
  \E w \in Workers :
    /\ wk[w].pc = "ns"
    /\ wk[w].localParams.veEnabled
    /\ wk[w].samplesRead = BlockLen
    /\ ~wk[w].hpDetected
    /\ nlf.st = "used"

\* C31 as stated: whenever a block read from a non-silent input (every
\* frame of MeterSpec is) is written with mute asserted, the written block
\* is all zeros and the published RMS and peak of L and R are non-zero.
C31_MutedBlockMeteredNonZero ==
  [][\A w \in Workers :
       (wk[w].pc = "write" /\ wk'[w].pc = "top"
          /\ wk[w].localParams.outputMute) =>
         /\ \A i \in 1..wk[w].samplesRead :
              codecOut'.L[i] = 0 /\ codecOut'.R[i] = 0
         /\ levels.rmsLeft > 0 /\ levels.rmsRight > 0
         /\ levels.peakLeft > 0 /\ levels.peakRight > 0]_vars

\* C31, amended: whenever a block is written with mute asserted, the
\* written block is all zeros, and the published RMS and peak of a channel
\* are non-zero if a post-gain sample of that channel is non-zero (at the
\* resolution METER_RES of the meter arithmetic).
C31_MeteredBeforeMute ==
  [][\A w \in Workers :
       (wk[w].pc = "write" /\ wk'[w].pc = "top"
          /\ wk[w].localParams.outputMute) =>
         /\ \A i \in 1..wk[w].samplesRead :
              codecOut'.L[i] = 0 /\ codecOut'.R[i] = 0
         /\ (\E i \in 1..wk[w].samplesRead :
               Abs(wk[w].floatL[i]) >= METER_RES) =>
              (levels.rmsLeft > 0 /\ levels.peakLeft > 0)
         /\ (\E i \in 1..wk[w].samplesRead :
               Abs(wk[w].floatR[i]) >= METER_RES) =>
              (levels.rmsRight > 0 /\ levels.peakRight > 0)]_vars

\* a muted worker is about to write a block whose post-gain samples are
\* not zero
C31_Witness ==
  \E w \in Workers :
    /\ wk[w].pc = "write"
    /\ wk[w].localParams.outputMute
    /\ wk[w].samplesRead = BlockLen
    /\ \A i \in 1..BlockLen : wk[w].floatL[i] # 0 /\ wk[w].outBuf.L[i] = 0
    /\ levels.rmsLeft > 0

C34_LevelsInUnitRange ==
  /\ levels.rmsLeft \in 0..FS /\ levels.rmsRight \in 0..FS
  /\ levels.peakLeft \in 0..FS /\ levels.peakRight \in 0..FS
  /\ levels.rmsHP \in 0..FS /\ levels.peakHP \in 0..FS

\* C35: at most one worker is inside processLoop (between its entry and its
\* return) in every state.
C35_AtMostOneWorker ==
  Cardinality({w \in Workers : wk[w].pc \in LoopPcs \cup {"entry", "exit"}})
    <= 1

\* C36: while the dirty flag is clear, every worker that is past the
\* snapshot step of its iteration (from the apply step to the codec write)
\* holds a local parameter record equal to the shared one.
C36_SnapshotCurrentWhenClean ==
  ~paramsChanged =>
    \A w \in Workers :
      wk[w].pc \in LoopPcs \ {"top", "top_cs"} => wk[w].localParams = params

\* C37: from the return of a stop() to the next call of start() the codec
\* is muted and every helper handle is null, and no step in between
\* un-mutes the codec or makes a handle live.
C37_QuietAfterStop ==
  /\ [](hist.stopReturned =>
          (codec.mute /\ \A n \in HandleNames : h[n] = "null"))
  /\ [][hist.stopReturned =>
          /\ codec.mute => codec'.mute
          /\ \A n \in HandleNames : h[n] = "null" => h'[n] = "null"]_vars

\* C38: (1) whenever the engine is at rest and not running after a start()
\* (no call in progress, every worker created has returned), the speaker
\* amplifier is enabled and every helper handle is null; (2) a stop() that
\* finds the engine not running changes nothing.
C38_CleanedUpWhenNotRunning ==
  /\ []((/\ ~running /\ cpc = "idle" /\ nworkers >= 1
         /\ \A w \in Workers : wk[w].pc \in {"none", "done"}) =>
          (codec.speaker /\ \A n \in HandleNames : h[n] = "null"))
  /\ [][(cpc = "stop_cs" /\ ~running) =>
          UNCHANGED << params, levels, paramsChanged, running, taskHandle,
                       coef, zst, h, codec, codecOut, nworkers, wk >>]_vars

\* C39: in every state the write position of every worker's AEC input rings
\* and output rings is within 0..512, and a worker that is about to store a
\* new 512-sample AEC output frame (the input rings are full: VAD or
\* aec_process comes next) has drained the previous one (output write
\* position 0).
C39_AecRingsInBounds ==
  \A w \in Workers :
    /\ wk[w].aecRingPos \in 0..AEC_FRAME_16K
    /\ wk[w].aecOutRingPos \in 0..AEC_FRAME_16K
    /\ wk[w].pc \in {"vad", "vad_cs", "aec_proc"} => wk[w].aecOutRingPos = 0

\* a worker whose earlier output frame has been drained completely is about
\* to store the next one
C39_Witness ==
  \E w \in Workers :
    /\ wk[w].pc = "aec_proc"
    /\ wk[w].aecOutputReady
    /\ wk[w].aecOutRingPos = 0
    /\ wk[w].aecRingPos = AEC_FRAME_16K

\* C40: (a) a filter of length L >= 1 has 0 <= pos < L, and every tap index
\* (pos - i + L) mod L for i in 0..L-1 is in 0..L-1; (b) a process() call on
\* such a filter returns the dot product of the weights it found with the
\* reference buffer after the new sample was stored, and advances pos by one
\* modulo L; (c) a process() call on a filter without arrays or of length 0
\* returns 0 and leaves every member as it was.
C40_NlmsPositionAndEstimate ==
  /\ [](nlms.len >= 1 =>
          /\ nlms.pos \in 0..(nlms.len - 1)
          /\ \A i \in 0..(nlms.len - 1) :
               NlmsIdx(nlms, i) - 1 \in 0..(nlms.len - 1))
  /\ [][(nlms'.calls # nlms.calls /\ nlms'.op = "process") =>
          IF nlms.len >= 1
          THEN /\ nlms'.out =
                    TruncDiv(NlmsDot(nlms, nlms'.refBuf, nlms.len), NQ)
               /\ nlms'.pos = CRem(nlms.pos + 1, nlms.len)
               /\ nlms'.len = nlms.len
          ELSE /\ nlms'.out = 0
               /\ nlms'.len = nlms.len /\ nlms'.pos = nlms.pos
               /\ nlms'.weights = nlms.weights
               /\ nlms'.refBuf = nlms.refBuf]_vars

\* the second process() call on a filter of length 2 has wrapped pos back
\* to 0 and returned a non-zero estimate
C40_Witness ==
  /\ nlms.op = "process"
  /\ nlms.len = 2
  /\ nlms.pos = 0
  /\ nlms.out # 0
  /\ nlms.calls >= 3


====
